---- MODULE Spec2Model ----
(***************************************************************************)
(* A model of the GoHTTP server core (package server) and of its file      *)
(* descriptor limiter (package util).                                      *)
(*                                                                         *)
(* Tasks (goroutines) are pairs <<kind, n>>.  Every task has a program     *)
(* counter pc[t]; a step of a task is one action.  A critical section that *)
(* holds a mutex and cannot block is one atomic step, taken only when the  *)
(* mutex is free.  A section that can block while holding a mutex keeps    *)
(* the mutex in the state (mu for the Server mutex, lk for FDLimiter.lk).  *)
(* An unrecovered panic ends the Go program: it is recorded in panicked    *)
(* and no task takes a step afterwards.                                    *)
(***************************************************************************)
EXTENDS Integers, Sequences, FiniteSets, TLC

\* ------------------------------------------------------------------ bounds
\* fdl.limit, the argument of FDLimiter.Init, of a limiter used directly
Limit == 2
\* the fdlim argument of NewServer
FdLim == 1
\* number of tasks that use an FDLimiter directly (SpecFDL)
NClients == 3
\* largest timeout (in abstract time units) given to LockOrTimeout
MaxNs == 1
\* connections the clients open in a run
MaxConns == 2
\* connections the clients open in a run of the pipeline (Spec) and of the
\* lifecycle (SpecShutdown)
PipeConns == 1
\* requests a client sends on one connection
MaxReq == 2
\* tasks that call Server.Read (the parallel argument of Launch)
NWorkers == 2
\* extensions registered with AddExt in a run
NExt == 2
\* calls of Write the user makes on one Query
MaxWrites == 2
\* calls of Shutdown in a run
MaxShutdowns == 2

\* ------------------------------------------------------------------- tasks
ConnIds == 1..MaxConns
QueryIds == 1..(MaxConns * MaxReq)
\* the k-th request parsed from connection c is carried by Query Qid(c, k)
Qid(c, k) == (c - 1) * MaxReq + k
ConnOf(q) == ((q - 1) \div MaxReq) + 1
IdxOf(q) == ((q - 1) % MaxReq) + 1

Acc == <<"acc", 0>>                            \* go srv.acceptLoop()
Exp == <<"exp", 0>>                            \* go srv.expireLoop()
Shut == <<"sh", 0>>                            \* the caller of Shutdown
Rd(c) == <<"rd", c>>                           \* go srv.read(ssc)
Wk(w) == <<"wk", w>>                           \* a caller of Server.Read
Wr(q) == <<"wr", q>>                           \* a user task inside q.Write
Usr(c) == <<"usr", c>>                         \* the owner of a hijacked conn
Clients == {<<"cl", i>> : i \in 1..NClients}   \* direct users of an FDLimiter
Readers == {Rd(c) : c \in ConnIds}
Workers == {Wk(w) : w \in 1..NWorkers}
Writers == {Wr(q) : q \in QueryIds}
Owners == {Usr(c) : c \in ConnIds}
ServerTasks == {Acc, Exp, Shut} \cup Readers \cup Workers \cup Writers \cup Owners
Tasks == Clients \cup ServerTasks

Free == <<"free", 0>>

VARIABLES
    limit,      \* FDLimiter.limit
    count,      \* FDLimiter.count
    lk,         \* holder of FDLimiter.lk, or Free
    pc,         \* pc[t]: where task t is
    ns,         \* ns[t]: the ns argument of t's LockOrTimeout call
    waitsofar,  \* waitsofar[t]: local of LockOrTimeout
    result,     \* result[t]: what t's last limiter call returned
    ch,         \* ch[t]: the value a sender offers on the channel t gave LockOrChan
    msg,        \* msg[t]: the msg t's last LockOrChan call returned
    panicked,   \* "none", or the message of the panic that ended the program
    listen,     \* srv.listen != nil
    lclosed,    \* the listener has been closed
    qclosed,    \* srv.qch has been closed
    mu,         \* holder of the Server mutex, or Free
    conns,      \* srv.conns: the live set
    exts,       \* srv.exts, in registration order
    subs,       \* srv.subs: the SubURL of every sub-handler, in registration order
    stats,      \* srv.stats: RequestCount, ResponseCount, ExpireConnCount, MaxReqRespTime
    errq,       \* error Queries of the accept loop that a Read call received
    conn,       \* conn[c]: the state of connection c
    wire,       \* wire[c]: the responses serialized on c, by request number
    qry,        \* qry[q]: the fields of Query q
    loc,        \* loc[t]: the connection or Query task t works on
    kills,      \* expireLoop's list kills
    shutCalls,  \* calls of Shutdown made so far
    config,     \* the config argument of NewServer, then srv.config
    fdlim,      \* the fdlim argument of NewServer
    nfych,      \* fdl.nfych != nil: a notify channel is registered
    nfy,        \* the values received from fdl.nfych, oldest first
    asc         \* an AsyncServerConn and the locals of the tasks that use it

fdlVars == <<limit, count, lk>>
cliVars == <<ns, waitsofar, result, ch, msg>>
srvVars == <<listen, lclosed, qclosed, mu, conns, exts>>
dspVars == <<subs, stats, errq>>
nfyVars == <<nfych, nfy>>
newVars == <<config, fdlim, nfyVars, asc>>
serverVars == <<listen, lclosed, qclosed, mu, conns, exts, conn, wire, qry, loc, kills, shutCalls,
                subs, stats, errq>>
vars == <<limit, count, lk, pc, ns, waitsofar, result, ch, msg, panicked, listen, lclosed, qclosed,
          mu, conns, exts, conn, wire, qry, loc, kills, shutCalls, subs, stats, errq, config, fdlim, nfych, nfy, asc>>

Running == panicked = "none"

Goto(t, l) == pc' = [pc EXCEPT ![t] = l]

Kind(t) == t[1]

\* ------------------------------------------------------ AsyncServerConn
\* requests a client sends on the connection of an AsyncServerConn
MaxAReq == 3

\* no AsyncServerConn is in use
NoAsyncServerConn ==
    [sc |-> FALSE, queries |-> <<>>, wire |-> <<>>, nread |-> 0, called |-> {},
     req |-> [t \in {} |-> 0], pq |-> [t \in {} |-> 0]]

\* ------------------------------------------------------------ FDLimiter
\* labels at which a task waits in "<-fdl.ch"
ParkLabels == {"fdl_park", "fdl_tpark", "fdl_cpark"}
Parked(t) == pc[t] \in ParkLabels

\* where a parked task goes when it receives from fdl.ch: the top of
\* the for loop of the call it is in
Retry(l) == CASE l = "fdl_park" -> "fdl_lock"
              [] l = "fdl_tpark" -> "fdl_tlock"
              [] l = "fdl_cpark" -> "fdl_clock"

\* roc.go:115-121: lk.Lock(); if count < limit { count++; notify(); lk.Unlock(); return }
FdlAcquire(t, next) ==
    /\ lk = Free
    /\ count < limit
    /\ count' = count + 1
    /\ UNCHANGED <<newVars, limit, lk>>
    /\ Goto(t, next)

\* roc.go:115-116,122: lk.Lock(); count >= limit; lk.Unlock()
FdlSaturated == lk = Free /\ count >= limit

\* FdlUnlockBody without the test "fdl.count <= 0": the variant that the
\* bound 0 <= count must tell apart from the code
FdlUnlockBodyNoCheck(t, next) ==
    /\ lk = Free
    /\ UNCHANGED <<newVars, limit, panicked>>
    /\ count' = count - 1
    /\ IF count - 1 = limit - 1
         THEN lk' = t /\ Goto(t, "fdl_send")
         ELSE lk' = lk /\ Goto(t, next)

\* FdlUnlockBody with the send on fdl.ch after every decrement, not only
\* after the one that leaves limit-1: the variant that the wake-up rule
\* must tell apart from the code
FdlUnlockBodyAlwaysSend(t, next) ==
    /\ lk = Free
    /\ UNCHANGED <<newVars, limit>>
    /\ IF count <= 0
         THEN /\ panicked' = "FDLimiter"
              /\ lk' = t
              /\ UNCHANGED <<count, pc>>
         ELSE /\ count' = count - 1
              /\ UNCHANGED panicked
              /\ lk' = t
              /\ Goto(t, "fdl_send")

\* roc.go:180-189: the part of Unlock up to the send on fdl.ch
\*   count <= 0: panic("FDLimiter"), with lk still held
\*   count--; if count == limit-1 the task goes on to send on fdl.ch holding lk
FdlUnlockBody(t, next) ==
    /\ lk = Free
    /\ UNCHANGED <<newVars, limit>>
    /\ IF count <= 0
         THEN /\ panicked' = "FDLimiter"
              /\ lk' = t
              /\ UNCHANGED <<count, pc>>
         ELSE /\ count' = count - 1
              /\ UNCHANGED panicked
              /\ IF count - 1 = limit - 1
                   THEN lk' = t /\ Goto(t, "fdl_send")
                   ELSE lk' = lk /\ Goto(t, next)

\* roc.go:187-189 with roc.go:123 (or 151, 172): "fdl.ch <- 1" meets a
\* "<-fdl.ch" of a parked task r; the sender then releases lk
FdlSend(t, r, next) ==
    /\ pc[t] = "fdl_send"
    /\ lk = t
    /\ Parked(r)
    /\ lk' = Free
    /\ pc' = [pc EXCEPT ![t] = next, ![r] = Retry(pc[r])]
    /\ UNCHANGED <<newVars, limit, count>>

\* ------------------------------------------------- direct users of FDLimiter
\* a task calls Lock, LockOrTimeout(n), LockOrChan or Unlock
Call(t) ==
    /\ Running
    /\ pc[t] = "idle"
    /\ \/ Goto(t, "fdl_lock") /\ UNCHANGED ns
       \/ \E n \in 0..MaxNs : Goto(t, "fdl_tlock") /\ ns' = [ns EXCEPT ![t] = n]
       \/ Goto(t, "fdl_clock") /\ UNCHANGED ns
       \/ Goto(t, "fdl_unlock") /\ UNCHANGED ns
    /\ waitsofar' = [waitsofar EXCEPT ![t] = 0]
    /\ result' = [result EXCEPT ![t] = "pending"]
    /\ ch' = [ch EXCEPT ![t] = "none"]
    /\ msg' = [msg EXCEPT ![t] = "nil"]
    /\ UNCHANGED <<newVars, fdlVars, panicked, serverVars>>

\* FDLimiter.Lock, roc.go:113-126
Lock(t) ==
    /\ Running
    /\ pc[t] = "fdl_lock"
    /\ \/ /\ FdlAcquire(t, "idle")
          /\ result' = [result EXCEPT ![t] = "ok"]
       \/ /\ FdlSaturated
          /\ Goto(t, "fdl_park")
          /\ UNCHANGED <<fdlVars, result>>
    /\ UNCHANGED <<newVars, ns, waitsofar, ch, msg, panicked, serverVars>>

\* LockOrTimeout without the test "waitsofar >= ns": a saturated limiter
\* times the call out at once; the variant that the time budget must tell
\* apart from the code
LockOrTimeoutNoBudget(t) ==
    /\ Running
    /\ pc[t] = "fdl_tlock"
    /\ \/ /\ FdlAcquire(t, "idle")
          /\ result' = [result EXCEPT ![t] = "ok"]
       \/ /\ FdlSaturated
          /\ Goto(t, "idle") /\ result' = [result EXCEPT ![t] = "timeout"]
          /\ UNCHANGED fdlVars
    /\ UNCHANGED <<newVars, ns, waitsofar, ch, msg, panicked, serverVars>>

\* FDLimiter.LockOrTimeout, roc.go:130-147
LockOrTimeout(t) ==
    /\ Running
    /\ pc[t] = "fdl_tlock"
    /\ \/ /\ FdlAcquire(t, "idle")
          /\ result' = [result EXCEPT ![t] = "ok"]
       \/ /\ FdlSaturated
          /\ IF waitsofar[t] >= ns[t]
               THEN Goto(t, "idle") /\ result' = [result EXCEPT ![t] = "timeout"]
               ELSE Goto(t, "fdl_tpark") /\ UNCHANGED result
          /\ UNCHANGED fdlVars
    /\ UNCHANGED <<newVars, ns, waitsofar, ch, msg, panicked, serverVars>>

\* roc.go:148-153, "case <-alrm": the alarm of ns - waitsofar fires, so at
\* least that much time has passed since t0
alarmOnce(t) ==
    /\ Running
    /\ pc[t] = "fdl_tpark"
    /\ waitsofar' = [waitsofar EXCEPT ![t] = ns[t]]
    /\ Goto(t, "fdl_tlock")
    /\ UNCHANGED <<newVars, fdlVars, ns, result, ch, msg, panicked, serverVars>>

\* FDLimiter.LockOrChan, roc.go:158-167
LockOrChan(t) ==
    /\ Running
    /\ pc[t] = "fdl_clock"
    /\ \/ /\ FdlAcquire(t, "idle")
          /\ result' = [result EXCEPT ![t] = "ok"]
       \/ /\ FdlSaturated
          /\ Goto(t, "fdl_cpark")
          /\ UNCHANGED <<fdlVars, result>>
    /\ UNCHANGED <<newVars, ns, waitsofar, ch, msg, panicked, serverVars>>

\* the values sent on the channel given to LockOrChan
Msgs == {"m1", "m2"}

\* a sender offers a value on the channel that t gave to LockOrChan
CancelSend(t) ==
    /\ Running
    /\ pc[t] \in {"fdl_clock", "fdl_cpark"}
    /\ ch[t] = "none"
    /\ \E v \in Msgs : ch' = [ch EXCEPT ![t] = v]
    /\ UNCHANGED <<newVars, fdlVars, pc, ns, waitsofar, result, msg, panicked, serverVars>>

\* roc.go:169-171, "case msg = <-ch; return msg, ErrTimeout" without the value:
\* the variant that the cancel value must tell apart from the code
LockOrChanMsgDropped(t) ==
    /\ Running
    /\ pc[t] = "fdl_cpark"
    /\ ch[t] # "none"
    /\ Goto(t, "idle")
    /\ result' = [result EXCEPT ![t] = "cancelled"]
    /\ ch' = [ch EXCEPT ![t] = "none"]
    /\ UNCHANGED <<newVars, fdlVars, ns, waitsofar, msg, panicked, serverVars>>

\* roc.go:169-171, "case msg = <-ch: return msg, ErrTimeout": the value
\* offered on the caller's channel is received and returned
LockOrChanMsg(t) ==
    /\ Running
    /\ pc[t] = "fdl_cpark"
    /\ ch[t] # "none"
    /\ Goto(t, "idle")
    /\ result' = [result EXCEPT ![t] = "cancelled"]
    /\ msg' = [msg EXCEPT ![t] = ch[t]]
    /\ ch' = [ch EXCEPT ![t] = "none"]
    /\ UNCHANGED <<newVars, fdlVars, ns, waitsofar, panicked, serverVars>>

\* FDLimiter.Unlock, roc.go:179-186
Unlock(t) ==
    /\ Running
    /\ pc[t] = "fdl_unlock"
    /\ FdlUnlockBody(t, "idle")
    /\ result' = [result EXCEPT ![t] = IF count <= 0 THEN "panic"
                                        ELSE IF count = limit THEN "pending" ELSE "ok"]
    /\ UNCHANGED <<newVars, ns, waitsofar, ch, msg, serverVars>>

\* FDLimiter.Unlock, roc.go:187-189: the send on fdl.ch and lk.Unlock().  A
\* receiver parked in LockOrTimeout adds the time d it was parked to
\* waitsofar (roc.go:153)
UnlockSend(t) ==
    /\ Running
    /\ \E r \in Clients \ {t} :
          /\ FdlSend(t, r, "idle")
          /\ IF pc[r] = "fdl_tpark"
               THEN \E d \in 0..(MaxNs - waitsofar[r]) :
                       waitsofar' = [waitsofar EXCEPT ![r] = @ + d]
               ELSE UNCHANGED waitsofar
    /\ result' = [result EXCEPT ![t] = "ok"]
    /\ UNCHANGED <<newVars, ns, ch, msg, panicked, serverVars>>

\* ------------------------------------------- FDLimiter with a notify channel
\* values published on the notify channel in a run
MaxNfy == 4

\* roc.go:115-118, 134-137, 160-163 with fdl.nfych != nil: lk.Lock(); count < limit;
\* count++; the task goes on to notify() holding lk
notifyLock(t) ==
    /\ Running
    /\ nfych
    /\ pc[t] \in {"fdl_lock", "fdl_tlock", "fdl_clock"}
    /\ lk = Free
    /\ count < limit
    /\ count' = count + 1
    /\ lk' = t
    /\ Goto(t, "fdl_nfy")
    /\ UNCHANGED <<config, fdlim, asc, nfyVars, limit, cliVars, panicked, serverVars>>

\* notifyUnlock without the call of notify(): the variant that the
\* publication of every change must tell apart from the code
notifyUnlockSilent(t) ==
    /\ Running
    /\ nfych
    /\ pc[t] = "fdl_unlock"
    /\ lk = Free
    /\ count > 0
    /\ count' = count - 1
    /\ IF count - 1 = limit - 1
         THEN lk' = t /\ Goto(t, "fdl_send") /\ UNCHANGED result
         ELSE lk' = lk /\ Goto(t, "idle") /\ result' = [result EXCEPT ![t] = "ok"]
    /\ UNCHANGED <<config, fdlim, asc, nfyVars, limit, ns, waitsofar, ch, msg, panicked, serverVars>>

\* FDLimiter.Unlock, roc.go:180-185 with fdl.nfych != nil: lk.Lock(); panic at
\* count <= 0; count--; the task goes on to notify() holding lk
notifyUnlock(t) ==
    /\ Running
    /\ nfych
    /\ pc[t] = "fdl_unlock"
    /\ lk = Free
    /\ IF count <= 0
         THEN /\ panicked' = "FDLimiter"
              /\ lk' = t
              /\ result' = [result EXCEPT ![t] = "panic"]
              /\ UNCHANGED <<count, pc>>
         ELSE /\ count' = count - 1
              /\ lk' = t
              /\ Goto(t, "fdl_unfy")
              /\ UNCHANGED <<panicked, result>>
    /\ UNCHANGED <<config, fdlim, asc, nfyVars, limit, ns, waitsofar, ch, msg, serverVars>>

\* FDLimiter.notify, roc.go:98-102: "fdl.nfych <- fdl.count" is received by the
\* owner of the channel.  Lock then releases lk and returns (roc.go:119-120);
\* Unlock goes on to the test "count == limit-1" (roc.go:186-189)
notify(t) ==
    /\ Running
    /\ pc[t] \in {"fdl_nfy", "fdl_unfy"}
    /\ lk = t
    /\ nfy' = Append(nfy, count)
    /\ IF pc[t] = "fdl_unfy" /\ count = limit - 1
         THEN Goto(t, "fdl_send") /\ UNCHANGED <<lk, result>>
         ELSE /\ lk' = Free
              /\ Goto(t, "idle")
              /\ result' = [result EXCEPT ![t] = "ok"]
    /\ UNCHANGED <<config, fdlim, asc, nfych, limit, count, ns, waitsofar, ch, msg, panicked, serverVars>>

\* ------------------------------------------- tasks of an AsyncServerConn
\* ServerConn.Write of the wire codec: serializes one response, that of
\* request k, on the connection whose responses so far are w
ServerConnWriteResp(w, k) == Append(w, k)

\* the position in asc.queries of the query of request k (0: none)
QueryOf(k) ==
    IF \E i \in 1..Len(asc.queries) : asc.queries[i].req = k
      THEN CHOOSE i \in 1..Len(asc.queries) : asc.queries[i].req = k
      ELSE 0

\* a task returns from Read or Write of the AsyncServerConn with result r
ascReturn(t, r) ==
    /\ Goto(t, "idle")
    /\ result' = [result EXCEPT ![t] = r]

\* AsyncServerConn.Read, aserverconn.go:45-69, of a request without a body:
\* under rlk the next request is read from the connection and its query is
\* pushed at the back of asc.queries
ascRead(t) ==
    /\ Running
    /\ pc[t] = "idle"
    /\ asc.sc
    /\ asc.nread < MaxAReq
    /\ asc' = [asc EXCEPT !.nread = @ + 1,
                          !.queries = Append(@, [req |-> asc.nread + 1, resp |-> FALSE])]
    /\ ascReturn(t, "ok")
    /\ UNCHANGED <<config, fdlim, nfyVars, fdlVars, ns, waitsofar, ch, msg, panicked, serverVars>>

\* a task calls asc.Write(req, resp) for a request that Read has returned
\* and that no task has answered
ascCall(t) ==
    /\ Running
    /\ pc[t] = "idle"
    /\ \E k \in (1..asc.nread) \ asc.called :
          asc' = [asc EXCEPT !.called = @ \cup {k}, !.req[t] = k]
    /\ Goto(t, "asc_place")
    /\ UNCHANGED <<config, fdlim, nfyVars, fdlVars, cliVars, panicked, serverVars>>

\* AsyncServerConn.placeResponse, aserverconn.go:153-172, as called by Write
\* (aserverconn.go:76-83)
placeResponse(t) ==
    LET i == QueryOf(asc.req[t]) IN
    /\ Running
    /\ pc[t] = "asc_place"
    /\ IF ~asc.sc
         THEN ascReturn(t, "EBADF") /\ UNCHANGED <<asc, panicked>>
         ELSE IF i = 0
         THEN panicked' = "unreachable" /\ UNCHANGED <<asc, pc, result>>
         ELSE IF asc.queries[i].resp
         THEN panicked' = "asc, placing resp over existing one" /\ UNCHANGED <<asc, pc, result>>
         ELSE /\ asc' = [asc EXCEPT !.queries[i].resp = TRUE]
              /\ Goto(t, "asc_pop")
              /\ UNCHANGED <<panicked, result>>
    /\ UNCHANGED <<config, fdlim, nfyVars, fdlVars, ns, waitsofar, ch, msg, serverVars>>

\* AsyncServerConn.popServable, aserverconn.go:174-190, as called by the loop
\* of Write (aserverconn.go:84-91): under asc.lk the front query is removed
\* if it has its response, and Write goes on to write it; otherwise Write
\* returns
popServable(t) ==
    /\ Running
    /\ pc[t] = "asc_pop"
    /\ IF ~asc.sc
         THEN ascReturn(t, "EBADF") /\ UNCHANGED asc
         ELSE IF asc.queries = <<>> \/ ~Head(asc.queries).resp
         THEN ascReturn(t, "ok") /\ UNCHANGED asc
         ELSE /\ asc' = [asc EXCEPT !.queries = Tail(@), !.pq[t] = Head(asc.queries).req]
              /\ Goto(t, "asc_wlk")
              /\ UNCHANGED result
    /\ UNCHANGED <<config, fdlim, nfyVars, fdlVars, ns, waitsofar, ch, msg, panicked, serverVars>>

\* AsyncServerConn.Write, aserverconn.go:93-109: asc.wlk.Lock(); asc.sc.Write(pq.Resp);
\* asc.wlk.Unlock(); a failed write returns its error, a successful one goes
\* round the loop
ascWrite(t) ==
    /\ Running
    /\ pc[t] = "asc_wlk"
    /\ IF ~asc.sc
         THEN ascReturn(t, "EBADF") /\ UNCHANGED asc
         ELSE \/ /\ asc' = [asc EXCEPT !.wire = ServerConnWriteResp(@, asc.pq[t])]
                 /\ Goto(t, "asc_pop")
                 /\ UNCHANGED result
              \/ ascReturn(t, "error") /\ UNCHANGED asc
    /\ UNCHANGED <<config, fdlim, nfyVars, fdlVars, ns, waitsofar, ch, msg, panicked, serverVars>>

\* AsyncServerConn.Close, aserverconn.go:117-151: under the three mutexes
\* asc.sc is set to nil; the queries left are then removed
ascClose(t) ==
    /\ Running
    /\ pc[t] = "idle"
    /\ IF ~asc.sc
         THEN ascReturn(t, "EBADF") /\ UNCHANGED asc
         ELSE /\ asc' = [asc EXCEPT !.sc = FALSE, !.queries = <<>>]
              /\ ascReturn(t, "ok")
    /\ UNCHANGED <<config, fdlim, nfyVars, fdlVars, ns, waitsofar, ch, msg, panicked, serverVars>>

\* ------------------------------------------------------------- initial state
NoConn == [sock |-> "none", run |-> FALSE, stale |-> FALSE, nreq |-> 0,
           rel |-> 0, hij |-> FALSE, touched |-> FALSE, counting |-> 0]
NoQuery == [st |-> "none", fwd |-> FALSE, hijacked |-> FALSE, srv |-> FALSE,
            req |-> FALSE, rd |-> <<>>, wr |-> <<>>, writes |-> 0,
            fail |-> 0, sub |-> 0, path |-> <<>>, closes |-> 0]

\* srv.stats after Stats.Init
NoStats == [req |-> 0, resp |-> 0, expire |-> 0, maxrt |-> 0]

ServerIdle ==
    /\ listen = FALSE /\ lclosed = FALSE /\ qclosed = FALSE
    /\ mu = Free
    /\ conns = {}
    /\ exts = <<>>
    /\ subs = <<>>
    /\ stats = NoStats
    /\ errq = 0
    /\ conn = [c \in ConnIds |-> NoConn]
    /\ wire = [c \in ConnIds |-> <<>>]
    /\ qry = [q \in QueryIds |-> NoQuery]
    /\ loc = [t \in ServerTasks |-> 0]
    /\ kills = {}
    /\ shutCalls = 0
    /\ config = [Timeout |-> 0]
    /\ fdlim = 0

\* an FDLimiter after Init (roc.go:78-87), used by NClients tasks
InitFDL ==
    /\ limit = Limit
    /\ count = 0
    /\ lk = Free
    /\ pc = [t \in Tasks |-> IF t \in Clients THEN "idle" ELSE "off"]
    /\ ns = [t \in Clients |-> 0]
    /\ waitsofar = [t \in Clients |-> 0]
    /\ result = [t \in Clients |-> "none"]
    /\ ch = [t \in Clients |-> "none"]
    /\ msg = [t \in Clients |-> "nil"]
    /\ panicked = "none"
    /\ nfych = FALSE
    /\ nfy = <<>>
    /\ asc = NoAsyncServerConn
    /\ ServerIdle

NextFDL ==
    \E t \in Clients :
        \/ Call(t)
        \/ Lock(t)
        \/ LockOrTimeout(t)
        \/ alarmOnce(t)
        \/ LockOrChan(t)
        \/ CancelSend(t)
        \/ LockOrChanMsg(t)
        \/ Unlock(t)
        \/ UnlockSend(t)

SpecFDL == InitFDL /\ [][NextFDL]_vars

\* C3: in every reachable state 0 <= count <= limit, and a task whose Unlock
\* found count at 0 has panicked and left count at 0
C3_CountWithinLimit ==
    /\ 0 <= count
    /\ count <= limit
    /\ \A t \in Clients : result[t] = "panic" => (panicked = "FDLimiter" /\ count = 0)

\* an Unlock at count 0 has panicked, after the limiter had been saturated
\* (a LockOrTimeout timed out) and the permits were released again
C3_Witness ==
    /\ panicked = "FDLimiter"
    /\ \E t \in Clients : result[t] = "panic"
    /\ \E t \in Clients : result[t] = "timeout"

\* C18: LockOrTimeout returns the timeout failure only at saturation with
\* waitsofar >= ns, the time accumulated over its parks, and then leaves
\* count as it was; when it returns success it has added one to count
C18_TimeoutAfterBudget ==
    [][\A t \in Clients :
          (pc[t] = "fdl_tlock" /\ pc'[t] = "idle")
              => IF result'[t] = "timeout"
                   THEN waitsofar[t] >= ns[t] /\ count >= limit /\ count' = count
                   ELSE result'[t] = "ok" /\ count' = count + 1]_vars

\* a LockOrTimeout with a positive budget has timed out
C18_Witness ==
    \E t \in Clients :
        result[t] = "timeout" /\ ns[t] >= 1 /\ waitsofar[t] >= ns[t]

\* C19: a LockOrChan parked at saturation that receives a value on its
\* channel returns cancelled with that value and leaves count as it was; a
\* LockOrChan that finds count < limit adds one to count and returns
\* success with no value
C19_CancelReturnsValue ==
    [][\A t \in Clients :
          /\ (pc[t] = "fdl_cpark" /\ pc'[t] = "idle")
                => /\ result'[t] = "cancelled"
                   /\ ch[t] \in Msgs /\ msg'[t] = ch[t]
                   /\ count' = count
          /\ (pc[t] = "fdl_clock" /\ pc'[t] # "fdl_clock")
                => IF count < limit
                     THEN /\ pc'[t] = "idle" /\ count' = count + 1
                          /\ result'[t] = "ok" /\ msg'[t] = "nil"
                     ELSE pc'[t] = "fdl_cpark" /\ count' = count]_vars

\* a parked LockOrChan was cancelled and returned the value sent
C19_Witness ==
    \E t \in Clients : result[t] = "cancelled" /\ msg[t] \in Msgs /\ count = limit

\* C20: Unlock goes on to send on fdl.ch exactly when its decrement takes
\* count from limit to limit-1, and the send is received by exactly one
\* parked task
C20_WakeOnlyAtLimit ==
    [][\A t \in Clients :
          /\ (pc[t] = "fdl_unlock" /\ pc'[t] # "fdl_unlock")
                => /\ count' = count - 1
                   /\ (pc'[t] = "fdl_send") <=> (count = limit)
          /\ (pc[t] = "fdl_send" /\ pc'[t] # "fdl_send")
                => /\ count' = count
                   /\ Cardinality({r \in Clients :
                         Parked(r) /\ pc'[r] = Retry(pc[r])}) = 1]_vars

\* an Unlock that took count from limit to limit-1 is about to wake one of
\* two parked tasks
C20_Witness ==
    \E t \in Clients :
        /\ pc[t] = "fdl_send" /\ count = limit - 1
        /\ Cardinality({r \in Clients : Parked(r)}) = 2

\* ================================================================== Server
\* The connection a task works on.
ConnArg(t) ==
    CASE Kind(t) \in {"rd", "usr"} -> t[2]
      [] Kind(t) = "wr" -> ConnOf(t[2])
      [] Kind(t) = "wk" -> ConnOf(loc[t])
      [] OTHER -> loc[t]

\* The Query a task inside Write works on.
QueryArg(t) == IF Kind(t) = "wr" THEN t[2] ELSE loc[t]

\* Server.register, part_007:642-649
register(c) ==
    /\ mu = Free
    /\ IF c \in conns
         THEN panicked' = "register twice" /\ UNCHANGED <<conns, pc>>
         ELSE /\ conns' = conns \cup {c}
              /\ pc' = [pc EXCEPT ![Acc] = "acc_top", ![Rd(c)] = "rd_read"]
              /\ UNCHANGED panicked

\* Server.unregister, part_007:651-655
unregister(c) ==
    /\ mu = Free
    /\ conns' = conns \ {c}

\* ---------------------------------------------------------- accept loop
\* acceptLoop, part_007:453-458: read srv.listen under the mutex
acceptLoop ==
    /\ Running
    /\ pc[Acc] = "acc_top"
    /\ mu = Free
    /\ Goto(Acc, IF listen THEN "fdl_lock" ELSE "off")
    /\ UNCHANGED <<newVars, fdlVars, cliVars, dspVars, panicked, srvVars, conn, wire, qry, loc, kills, shutCalls>>

\* acceptLoop, part_007:459: srv.fdl.Lock()
acceptLock ==
    /\ Running
    /\ pc[Acc] = "fdl_lock"
    /\ \/ FdlAcquire(Acc, "acc_accept")
       \/ FdlSaturated /\ Goto(Acc, "fdl_park") /\ UNCHANGED fdlVars
    /\ UNCHANGED <<newVars, cliVars, dspVars, panicked, srvVars, conn, wire, qry, loc, kills, shutCalls>>

\* sub-handlers registered with AddSub in a run
NSub == 2
\* longest time (in abstract time units) from a request to its response
MaxLat == 1

\* the next connection a client opens
NextConn(c) ==
    /\ conn[c].sock = "none"
    /\ \A d \in ConnIds : d < c => conn[d].sock # "none"

\* a step in which the clients have opened no more than n connections
OnlyConns(n) == \A c \in ConnIds : c > n => conn'[c] = conn[c]

\* acceptLoop, part_007:460-488: l.Accept() returns a connection, the socket
\* options are set, and the connection is wrapped (NewRunOnCloseConn,
\* NewStampedServerConn)
accept ==
    /\ Running
    /\ pc[Acc] = "acc_accept"
    /\ ~lclosed
    /\ \E c \in ConnIds :
          /\ NextConn(c)
          /\ conn' = [conn EXCEPT ![c] = [NoConn EXCEPT !.sock = "open", !.run = TRUE]]
          /\ loc' = [loc EXCEPT ![Acc] = c]
    /\ Goto(Acc, "acc_register")
    /\ UNCHANGED <<newVars, fdlVars, cliVars, dspVars, panicked, srvVars, wire, qry, kills, shutCalls>>

\* acceptLoop, part_007:461-464, 471-486: Accept fails, or SetReadTimeout or
\* SetWriteTimeout fails and the raw connection is closed
acceptError ==
    /\ Running
    /\ pc[Acc] = "acc_accept"
    /\ \/ UNCHANGED conn
       \/ /\ ~lclosed
          /\ \E c \in ConnIds :
                /\ NextConn(c)
                /\ conn' = [conn EXCEPT ![c] = [NoConn EXCEPT !.sock = "closed"]]
    /\ Goto(Acc, "fdl_unlock")
    /\ UNCHANGED <<newVars, fdlVars, cliVars, dspVars, panicked, srvVars, wire, qry, loc, kills, shutCalls>>

\* acceptLoop, part_007:465, 475, 483: srv.fdl.Unlock() on the error paths
acceptUnlock ==
    /\ Running
    /\ pc[Acc] = "fdl_unlock"
    /\ FdlUnlockBody(Acc, "acc_qerr")
    /\ UNCHANGED <<newVars, cliVars, dspVars, srvVars, conn, wire, qry, loc, kills, shutCalls>>

\* acceptLoop, part_007:489-490: srv.register(ssc); go srv.read(ssc)
acceptRegister ==
    /\ Running
    /\ pc[Acc] = "acc_register"
    /\ register(loc[Acc])
    /\ UNCHANGED <<newVars, fdlVars, cliVars, dspVars, listen, lclosed, qclosed, mu, exts, conn, wire, qry,
                   loc, kills, shutCalls>>

\* ------------------------------------------- closing a connection (bury)
\* Server.bury, part_007:657-660: srv.unregister(ssc), then ssc.Close()
bury(t) ==
    /\ Running
    /\ pc[t] = "bury"
    /\ unregister(ConnArg(t))
    /\ Goto(t, "close")
    /\ UNCHANGED <<newVars, fdlVars, cliVars, dspVars, panicked, listen, lclosed, qclosed, mu, exts, conn,
                   wire, qry, loc, kills, shutCalls>>

\* resp.Body != nil for the response task t gives to Write for Query q:
\* Launch writes http.NewResponse404, which has a body (part_007:533); of the
\* responses user code writes for a Query the first has a body
HasBody(t, q) == Kind(t) = "wk" \/ qry[q].writes = 1

\* a Close of the body at the end of the success path only, not deferred:
\* the variant that the close on the error paths must tell apart from
\* the code
BodyClosedOnSuccess(t, q, r) ==
    [r EXCEPT ![q].closes = IF HasBody(t, q) /\ r[q].srv THEN @ + 1 ELSE @]

\* Query.Write, query.go:77-81: "if resp.Body != nil { defer b.Close() }" runs
\* when Write returns; r is qry as the return leaves it
BodyClosed(t, q, r) ==
    [r EXCEPT ![q].closes = IF HasBody(t, q) THEN @ + 1 ELSE @]

\* what a task does when Close returns: pc, conns and qry
CloseReturn(t) ==
    CASE Kind(t) = "rd" -> Goto(t, "off") /\ UNCHANGED <<conns, qry, mu>>
      [] Kind(t) = "usr" -> Goto(t, "done") /\ UNCHANGED <<conns, qry, mu>>
      \* expireLoop, part_007:437-441: the next element of kills
      [] Kind(t) = "exp" -> Goto(t, "exp_kill") /\ UNCHANGED <<conns, qry, mu>>
      \* Shutdown, part_007:677-680: delete the connection, go on iterating
      [] Kind(t) = "sh" -> /\ conns' = conns \ {ConnArg(t)}
                           /\ Goto(t, "sh_loop")
                           /\ UNCHANGED <<qry, mu>>
      \* Query.Write, query.go:95-98, 106-109: q.ssc = nil; q.srv = nil; return err,
      \* and the deferred Close of the body (query.go:77-81)
      [] Kind(t) = "wk" -> /\ qry' = BodyClosed(t, QueryArg(t),
                                              [qry EXCEPT ![QueryArg(t)].srv = FALSE])
                           /\ Goto(t, "wk_recv")
                           /\ UNCHANGED <<conns, mu>>
      [] Kind(t) = "wr" -> /\ qry' = BodyClosed(t, QueryArg(t),
                                              [qry EXCEPT ![QueryArg(t)].srv = FALSE])
                           /\ Goto(t, "off")
                           /\ UNCHANGED <<conns, mu>>

\* runOnCloseConn.Close, roc.go:45-47: t.Conn.Close(), then the test
\* "t.run != nil"; a task that finds run set goes on to call it
runOnCloseConnClose(t) ==
    LET c == ConnArg(t) IN
    /\ conn' = [conn EXCEPT ![c].sock = "closed",
                            ![c].rel = IF conn[c].run THEN @ + 1 ELSE @,
                            ![c].touched = @ \/ (conn[c].hij /\ Kind(t) # "usr")]
    /\ IF conn[c].run
         THEN Goto(t, "fdl_unlock") /\ UNCHANGED <<conns, qry, mu>>
         ELSE CloseReturn(t)

\* ServerConn.Close of the wire codec: closes the connection it wraps
ServerConnClose(t) == runOnCloseConnClose(t)

\* ssc.Close() as called by bury, Shutdown and the owner of a hijacked
\* connection
Close(t) ==
    /\ Running
    /\ pc[t] = "close"
    /\ ServerConnClose(t)
    /\ UNCHANGED <<newVars, fdlVars, cliVars, dspVars, panicked, listen, lclosed, qclosed, exts, wire, loc,
                   kills, shutCalls>>

\* runOnCloseConn.Close, roc.go:48: t.run(), which is srv.fdl.Unlock()
\* (part_007:487), up to its send on fdl.ch
closeUnlock(t) ==
    /\ Running
    /\ pc[t] = "fdl_unlock"
    /\ FdlUnlockBody(t, "cl_setnil")
    /\ UNCHANGED <<newVars, cliVars, dspVars, srvVars, conn, wire, qry, loc, kills, shutCalls>>

\* FDLimiter.Unlock, roc.go:187-189: the send on fdl.ch is received by the
\* accept loop parked in Lock
closeSend(t) ==
    /\ Running
    /\ FdlSend(t, Acc, "cl_setnil")
    /\ UNCHANGED <<newVars, cliVars, dspVars, panicked, srvVars, conn, wire, qry, loc, kills, shutCalls>>

\* runOnCloseConn.Close, roc.go:49-51: t.run = nil; return err
closeSetNil(t) ==
    /\ Running
    /\ pc[t] = "cl_setnil"
    /\ conn' = [conn EXCEPT ![ConnArg(t)].run = FALSE]
    /\ CloseReturn(t)
    /\ UNCHANGED <<newVars, fdlVars, cliVars, dspVars, panicked, listen, lclosed, qclosed, exts, wire, loc,
                   kills, shutCalls>>

\* ------------------------------------------------- per-connection reader
\* the URL path of the k-th request a client sends
ReqPath(k) == IF k % 2 = 1 THEN <<"a", "x">> ELSE <<"b">>

\* a fresh Query for the k-th request of a connection, part_007:630-636
NewQuery == [NoQuery EXCEPT !.st = "chan", !.srv = TRUE, !.req = TRUE]

\* Server.read, part_007:610-629 with StampedServerConn.Read, stamped.go:43-47:
\* a request is parsed, or the read fails and the connection is buried
read(c) ==
    /\ Running
    /\ pc[Rd(c)] = "rd_read"
    /\ \/ /\ conn[c].sock = "open"
          /\ conn[c].nreq < MaxReq
          /\ conn' = [conn EXCEPT ![c].nreq = @ + 1, ![c].stale = FALSE,
                                  ![c].touched = @ \/ conn[c].hij]
          /\ qry' = [qry EXCEPT ![Qid(c, conn[c].nreq + 1)] =
                                    [NewQuery EXCEPT !.path = ReqPath(conn[c].nreq + 1)]]
          /\ Goto(Rd(c), "rd_send")
       \/ /\ conn' = [conn EXCEPT ![c].stale = FALSE,
                                  ![c].touched = @ \/ conn[c].hij]
          /\ Goto(Rd(c), "bury")
          /\ UNCHANGED qry
    /\ UNCHANGED <<newVars, fdlVars, cliVars, dspVars, panicked, srvVars, wire, loc, kills, shutCalls>>

\* Server.read, part_007:630: the send on srv.qch finds the channel closed
readSendClosed(c) ==
    /\ Running
    /\ pc[Rd(c)] = "rd_send"
    /\ qclosed
    /\ panicked' = "send on closed channel"
    /\ UNCHANGED <<newVars, fdlVars, cliVars, dspVars, pc, srvVars, conn, wire, qry, loc, kills, shutCalls>>

\* ------------------------------------------------------------ expire loop
\* a connection sees no I/O for Timeout: now - stamp >= Timeout
Idle(c) ==
    /\ Running
    /\ conn[c].sock = "open"
    /\ ~conn[c].stale
    /\ conn' = [conn EXCEPT ![c].stale = TRUE]
    /\ UNCHANGED <<newVars, fdlVars, cliVars, dspVars, pc, panicked, srvVars, wire, qry, loc, kills, shutCalls>>

\* expireLoop, part_007:422-435: the scan of srv.conns under the mutex
expireLoop ==
    /\ Running
    /\ pc[Exp] = "exp_scan"
    /\ mu = Free
    /\ IF ~listen
         THEN Goto(Exp, "off") /\ UNCHANGED <<kills, stats>>
         ELSE /\ kills' = {c \in conns : conn[c].stale}
              /\ kills' # {}
              \* part_007:432: IncExpireConn() for every connection put in kills
              /\ stats' = [stats EXCEPT !.expire = @ + Cardinality(kills')]
              /\ Goto(Exp, "exp_kill")
    /\ UNCHANGED <<newVars, fdlVars, cliVars, subs, errq, panicked, srvVars, conn, wire, qry, loc, shutCalls>>

\* expireLoop, part_007:436-444: srv.bury of the next element of kills, or,
\* at the end of the list, the sleep before the next scan
expireKill ==
    /\ Running
    /\ pc[Exp] = "exp_kill"
    /\ IF kills = {}
         THEN Goto(Exp, "exp_scan") /\ UNCHANGED <<kills, loc>>
         ELSE \E c \in kills :
                /\ kills' = kills \ {c}
                /\ loc' = [loc EXCEPT ![Exp] = c]
                /\ Goto(Exp, "bury")
    /\ UNCHANGED <<newVars, fdlVars, cliVars, dspVars, panicked, srvVars, conn, wire, qry, shutCalls>>

\* ---------------------------------------------------------------- Shutdown
\* Shutdown, part_007:667-671: l, srv.listen = srv.listen, nil; close(srv.qch)
Shutdown ==
    /\ Running
    /\ pc[Shut] = "off"
    /\ shutCalls < MaxShutdowns
    /\ mu = Free
    /\ shutCalls' = shutCalls + 1
    /\ listen' = FALSE
    \* loc[Shut] holds the local l: 1 when l != nil
    /\ IF qclosed
         THEN /\ panicked' = "close of closed channel"
              /\ mu' = Shut
              /\ UNCHANGED <<qclosed, pc, loc>>
         ELSE /\ qclosed' = TRUE
              /\ loc' = [loc EXCEPT ![Shut] = IF listen THEN 1 ELSE 0]
              /\ Goto(Shut, "sh_close")
              /\ UNCHANGED <<panicked, mu>>
    /\ UNCHANGED <<newVars, fdlVars, cliVars, dspVars, lclosed, conns, exts, conn, wire, qry, kills>>

\* Shutdown, part_007:672-674: if l != nil { err = l.Close() }
ShutdownClose ==
    /\ Running
    /\ pc[Shut] = "sh_close"
    /\ lclosed' = (lclosed \/ loc[Shut] = 1)
    /\ Goto(Shut, "sh_lock")
    /\ UNCHANGED <<newVars, fdlVars, cliVars, dspVars, panicked, listen, qclosed, mu, conns, exts, conn, wire,
                   qry, loc, kills, shutCalls>>

\* Shutdown, part_007:676: srv.Lock()
ShutdownLock ==
    /\ Running
    /\ pc[Shut] = "sh_lock"
    /\ mu = Free
    /\ mu' = Shut
    /\ Goto(Shut, "sh_loop")
    /\ UNCHANGED <<newVars, fdlVars, cliVars, dspVars, panicked, listen, lclosed, qclosed, conns, exts, conn,
                   wire, qry, loc, kills, shutCalls>>

\* Shutdown, part_007:677-682: the loop over srv.conns, holding the mutex
ShutdownLoop ==
    /\ Running
    /\ pc[Shut] = "sh_loop"
    /\ mu = Shut
    /\ IF conns = {}
         THEN mu' = Free /\ Goto(Shut, "off") /\ UNCHANGED loc
         ELSE \E c \in conns :
                /\ loc' = [loc EXCEPT ![Shut] = c]
                /\ Goto(Shut, "close")
                /\ UNCHANGED mu
    /\ UNCHANGED <<newVars, fdlVars, cliVars, dspVars, panicked, listen, lclosed, qclosed, conns, exts, conn,
                   wire, qry, kills, shutCalls>>

\* ------------------------------------------------------- extension chain
\* strings.HasPrefix on paths, a path being its sequence of characters
HasPrefix(p, s) == Len(s) <= Len(p) /\ SubSeq(p, 1, Len(s)) = s

\* extcfg.SubURL of extension e
SubURL(e) == IF e % 2 = 1 THEN <<>> ELSE <<"a">>

Reverse(s) == [i \in 1..Len(s) |-> s[Len(s) + 1 - i]]

\* Server.copyExt, part_007:560-567
copyExt == exts

\* Server.copyExtRev, part_007:569-578
copyExtRev == Reverse(exts)

\* the extensions of list l that "strings.HasPrefix(p, ec.SubURL)" selects
Matching(l, p) == SelectSeq(l, LAMBDA e : HasPrefix(p, SubURL(e)))

\* the hooks a chain over l invokes when the hook number fail returns an
\* error (fail = 0: none does)
Invoked(l, fail) == IF fail = 0 THEN l ELSE SubSeq(l, 1, fail)

\* Server.AddExt, part_007:545-549
AddExt ==
    /\ Running
    /\ pc[Acc] # "init"
    /\ mu = Free
    /\ Len(exts) < NExt
    /\ exts' = Append(exts, Len(exts) + 1)
    /\ UNCHANGED <<newVars, fdlVars, cliVars, dspVars, pc, panicked, listen, lclosed, qclosed, mu, conns, conn,
                   wire, qry, loc, kills, shutCalls>>

\* ------------------------------------------------------------ sub-handlers
\* the SubURL arguments given to AddSub
SubURLs == {<<>>, <<"a">>, <<"a", "x">>, <<"b">>}

\* Server.copySub, part_007:551-558
copySub == subs

\* Server.AddSub, part_007:539-543
AddSub ==
    /\ Running
    /\ mu = Free
    /\ Len(subs) < NSub
    /\ \E u \in SubURLs : subs' = Append(subs, u)
    /\ UNCHANGED <<newVars, fdlVars, cliVars, pc, panicked, listen, lclosed, qclosed, mu, conns, exts,
                   conn, wire, qry, loc, kills, shutCalls, stats, errq>>

\* the sub-handlers of list l whose SubURL is a prefix of p, by position
MatchingSubs(l, p) == {i \in 1..Len(l) : HasPrefix(p, l[i])}

\* Server.process, part_007:594-603: the sub-handler that is called for
\* path p is the last one in registration order that matches: the variant
\* that first-match routing must tell apart from the code
RouteLast(l, p) ==
    IF MatchingSubs(l, p) = {} THEN 0
    ELSE CHOOSE i \in MatchingSubs(l, p) : \A j \in MatchingSubs(l, p) : j <= i

\* longest-prefix routing: the sub-handler that is called for path p is one
\* with the longest matching SubURL, whatever the registration order
RouteLongest(l, p) ==
    IF MatchingSubs(l, p) = {} THEN 0
    ELSE CHOOSE i \in MatchingSubs(l, p) :
            \A j \in MatchingSubs(l, p) :
                Len(l[j]) < Len(l[i]) \/ (Len(l[j]) = Len(l[i]) /\ i <= j)

\* Server.process, part_007:594-603: the loop over the copy of srv.subs
\* stops at the first sub-handler whose SubURL is a prefix of p (0: none is)
Route(l, p) ==
    IF MatchingSubs(l, p) = {} THEN 0
    ELSE CHOOSE i \in MatchingSubs(l, p) : \A j \in MatchingSubs(l, p) : i <= j

\* part_007:598, "p[len(sc.SubURL):]": p without its first n characters
Strip(p, n) == SubSeq(p, n + 1, Len(p))

\* ------------------------------------------------------------ Server.Read
\* Read with a free-running reader: after the hand-over the reader of the
\* connection reads on instead of returning; the variant that the read gate
\* must tell apart from the code
ReadFreeRunning(w) ==
    /\ Running
    /\ pc[Wk(w)] = "wk_recv"
    /\ ~qclosed
    /\ \E c \in ConnIds :
          /\ pc[Rd(c)] = "rd_send"
          /\ pc' = [pc EXCEPT ![Rd(c)] = "rd_read", ![Wk(w)] = "wk_process"]
          /\ loc' = [loc EXCEPT ![Wk(w)] = Qid(c, conn[c].nreq)]
          /\ qry' = [qry EXCEPT ![Qid(c, conn[c].nreq)].st = "proc"]
          /\ conn' = [conn EXCEPT ![c].counting = @ + 1]
    /\ UNCHANGED <<newVars, fdlVars, cliVars, dspVars, panicked, srvVars, wire, kills, shutCalls>>

\* Server.Read, part_007:503: the receive from srv.qch meets the send of a
\* reader (part_007:630), which has the request still to count
\* (conn[c].counting) and then ends
Read(w) ==
    /\ Running
    /\ pc[Wk(w)] = "wk_recv"
    /\ ~qclosed
    /\ \E c \in ConnIds :
          /\ pc[Rd(c)] = "rd_send"
          /\ pc' = [pc EXCEPT ![Rd(c)] = "off", ![Wk(w)] = "wk_process"]
          /\ loc' = [loc EXCEPT ![Wk(w)] = Qid(c, conn[c].nreq)]
          /\ qry' = [qry EXCEPT ![Qid(c, conn[c].nreq)].st = "proc"]
          /\ conn' = [conn EXCEPT ![c].counting = @ + 1]
    /\ UNCHANGED <<newVars, fdlVars, cliVars, dspVars, panicked, srvVars, wire, kills, shutCalls>>

\* Server.read, part_007:637-638, with Stats.IncRequest, part_008:38-42: a
\* reader that has handed its Query over counts the request and returns
IncRequest(c) ==
    /\ Running
    /\ conn[c].counting > 0
    /\ conn' = [conn EXCEPT ![c].counting = @ - 1]
    /\ stats' = [stats EXCEPT !.req = @ + 1]
    /\ UNCHANGED <<newVars, fdlVars, cliVars, subs, errq, pc, panicked, srvVars, wire, qry, loc, kills,
                   shutCalls>>

\* Server.Read, part_007:503-512: the receive meets the accept loop's send of
\* an error Query (part_007:466), and Read returns the error; in Launch the
\* worker returns (part_007:530-532)
ReadError(w) ==
    /\ Running
    /\ pc[Wk(w)] = "wk_recv"
    /\ ~qclosed
    /\ pc[Acc] = "acc_qerr"
    /\ mu = Free
    /\ pc' = [pc EXCEPT ![Acc] = "off", ![Wk(w)] = "off"]
    /\ errq' = errq + 1
    /\ UNCHANGED <<newVars, fdlVars, cliVars, subs, stats, panicked, srvVars, conn, wire, qry, loc, kills, shutCalls>>

\* Server.Read, part_007:503-508: srv.qch is closed, Read returns os.EBADF
ReadClosed(w) ==
    /\ Running
    /\ pc[Wk(w)] = "wk_recv"
    /\ qclosed
    /\ mu = Free
    /\ Goto(Wk(w), "off")
    /\ UNCHANGED <<newVars, fdlVars, cliVars, dspVars, panicked, srvVars, conn, wire, qry, loc, kills, shutCalls>>

\* acceptLoop, part_007:466: the send on srv.qch finds the channel closed
acceptSendClosed ==
    /\ Running
    /\ pc[Acc] = "acc_qerr"
    /\ qclosed
    /\ panicked' = "send on closed channel"
    /\ UNCHANGED <<newVars, fdlVars, cliVars, dspVars, pc, srvVars, conn, wire, qry, loc, kills, shutCalls>>

\* Server.process, part_007:593-605: the routing of a Query whose forward
\* chain ran the hooks ran.  Serve is called on the first matching
\* sub-handler with the path stripped, and Read goes on to the next Query;
\* with no match Read returns the Query.  A Query that a sub-handler serves,
\* or that Read returns to a caller who is not a Launch worker, is in the
\* hands of user code ("user"); a Launch worker goes on to ContinueAndWrite
\* ("launch").
routing(w, q, ran, fail) ==
    LET p == qry[q].path
        l == copySub
        i == Route(l, p)
    IN
    IF i # 0
      THEN /\ qry' = [qry EXCEPT ![q].st = "user", ![q].rd = ran, ![q].fail = fail,
                                 ![q].sub = i, ![q].path = Strip(p, Len(l[i]))]
           /\ Goto(Wk(w), "wk_recv")
      ELSE \/ /\ qry' = [qry EXCEPT ![q].st = "launch", ![q].rd = ran, ![q].fail = fail]
              /\ Goto(Wk(w), "wk_continue")
           \/ /\ qry' = [qry EXCEPT ![q].st = "user", ![q].rd = ran, ![q].fail = fail]
              /\ Goto(Wk(w), "wk_recv")

\* Server.dispatch of the server without extensions, server.go:170-183,
\* as called by Read (server.go:147-161): srv.Lock(); defer srv.Unlock();
\* the loop over srv.subs calls sub.Sub.Serve(q) on the first match, with
\* the mutex held until Serve returns
dispatch(w) ==
    LET q == loc[Wk(w)]
        p == qry[q].path
        i == Route(subs, p)
    IN
    /\ Running
    /\ pc[Wk(w)] = "wk_process"
    /\ mu = Free
    /\ IF i # 0
         THEN /\ mu' = Wk(w)
              /\ qry' = [qry EXCEPT ![q].st = "user", ![q].sub = i,
                                    ![q].path = Strip(p, Len(subs[i]))]
              /\ Goto(Wk(w), "wk_serve")
         ELSE /\ qry' = [qry EXCEPT ![q].st = "user"]
              /\ Goto(Wk(w), "wk_recv")
              /\ UNCHANGED mu
    /\ UNCHANGED <<newVars, fdlVars, cliVars, dspVars, panicked, listen, lclosed, qclosed, conns,
                   exts, conn, wire, loc, kills, shutCalls>>

\* server.go:178-179: Serve returns, dispatch returns nil and its deferred
\* srv.Unlock() runs
dispatchReturn(w) ==
    /\ Running
    /\ pc[Wk(w)] = "wk_serve"
    /\ mu = Wk(w)
    /\ mu' = Free
    /\ Goto(Wk(w), "wk_recv")
    /\ UNCHANGED <<newVars, fdlVars, cliVars, dspVars, panicked, listen, lclosed, qclosed, conns,
                   exts, conn, wire, qry, loc, kills, shutCalls>>

\* Server.process without the "return nil" after a failing ReadRequest: the
\* remaining hooks and the routing go on; the variant that the abort of
\* dispatch must tell apart from the code
processNoAbort(w) ==
    LET q == loc[Wk(w)]
        chain == Matching(copyExt, ReqPath(IdxOf(q)))
    IN
    /\ Running
    /\ pc[Wk(w)] = "wk_process"
    /\ mu = Free
    /\ \E fail \in 0..Len(chain) : routing(w, q, chain, fail)
    /\ UNCHANGED <<newVars, fdlVars, cliVars, dspVars, panicked, srvVars, conn, wire, loc, kills, shutCalls>>

\* Server.process, part_007:580-606, as called by Read (part_007:504-516): the
\* forward chain over a copy of srv.exts, which a failing ReadRequest ends
\* with the Query dropped and Read going on to the next one, then the routing
process(w) ==
    LET q == loc[Wk(w)]
        chain == Matching(copyExt, ReqPath(IdxOf(q)))
    IN
    /\ Running
    /\ pc[Wk(w)] = "wk_process"
    /\ mu = Free
    /\ \E fail \in 0..Len(chain) :
          IF fail # 0
            THEN /\ qry' = [qry EXCEPT ![q].st = "dropped", ![q].rd = Invoked(chain, fail),
                                       ![q].fail = fail]
                 /\ Goto(Wk(w), "wk_recv")
            ELSE routing(w, q, chain, 0)
    /\ UNCHANGED <<newVars, fdlVars, cliVars, dspVars, panicked, srvVars, conn, wire, loc, kills, shutCalls>>

\* the paths a ReadRequest hook leaves in q.Req.URL.Path when it rewrites it
Rewritten == {<<"b">>, <<"a">>}

\* Server.process, part_007:593-605, for a Query whose forward chain left
\* q.Req.URL.Path at p: the loop over the copy of srv.subs matches on p
routingAt(w, q, ran, p) ==
    LET l == copySub
        i == Route(l, p)
    IN
    IF i # 0
      THEN /\ qry' = [qry EXCEPT ![q].st = "user", ![q].rd = ran, ![q].fail = 0,
                                 ![q].sub = i, ![q].path = Strip(p, Len(l[i]))]
           /\ Goto(Wk(w), "wk_recv")
      ELSE \/ /\ qry' = [qry EXCEPT ![q].st = "launch", ![q].rd = ran, ![q].fail = 0,
                                    ![q].path = p]
              /\ Goto(Wk(w), "wk_continue")
           \/ /\ qry' = [qry EXCEPT ![q].st = "user", ![q].rd = ran, ![q].fail = 0,
                                    ![q].path = p]
              /\ Goto(Wk(w), "wk_recv")

\* Server.process, part_007:580-606, with ReadRequest hooks that may rewrite
\* q.Req.URL.Path (they are given q.Req): the forward chain matches every
\* extension on q.origPath, and the routing uses the path the hooks left
processRewrite(w) ==
    LET q == loc[Wk(w)]
        chain == Matching(copyExt, ReqPath(IdxOf(q)))
    IN
    /\ Running
    /\ pc[Wk(w)] = "wk_process"
    /\ mu = Free
    /\ \E fail \in 0..Len(chain) :
          IF fail # 0
            THEN /\ qry' = [qry EXCEPT ![q].st = "dropped", ![q].rd = Invoked(chain, fail),
                                       ![q].fail = fail]
                 /\ Goto(Wk(w), "wk_recv")
            ELSE \E p \in {qry[q].path} \cup (IF chain = <<>> THEN {} ELSE Rewritten) :
                    routingAt(w, q, chain, p)
    /\ UNCHANGED <<newVars, fdlVars, cliVars, dspVars, panicked, srvVars, conn, wire, loc, kills, shutCalls>>

\* ------------------------------------------------------------------ Query
\* Continue without the test of q.fwd: the variant that the double-forward
\* panic must tell apart from the code
ContinueUnchecked(q, pcs) ==
    /\ IF ~qry[q].srv
         THEN /\ panicked' = "query zombie"
              /\ qry' = [qry EXCEPT ![q].fwd = TRUE]
              /\ UNCHANGED pc
         ELSE /\ qry' = [qry EXCEPT ![q].fwd = TRUE]
              /\ pc' = [pcs EXCEPT ![Rd(ConnOf(q))] = "rd_read"]
              /\ UNCHANGED panicked
    /\ UNCHANGED <<newVars, fdlVars, cliVars, dspVars, srvVars, conn, wire, loc, kills, shutCalls>>

\* Query.Continue, query.go:43-52, called by a task whose own step leaves the
\* program counters at pcs
Continue(q, pcs) ==
    /\ IF qry[q].fwd
         THEN /\ panicked' = "continue/hijack"
              /\ UNCHANGED qry
              /\ UNCHANGED pc
         ELSE IF ~qry[q].srv
         THEN /\ panicked' = "query zombie"
              /\ qry' = [qry EXCEPT ![q].fwd = TRUE]
              /\ UNCHANGED pc
         ELSE /\ qry' = [qry EXCEPT ![q].fwd = TRUE]
              /\ pc' = [pcs EXCEPT ![Rd(ConnOf(q))] = "rd_read"]
              /\ UNCHANGED panicked
    /\ UNCHANGED <<newVars, fdlVars, cliVars, dspVars, srvVars, conn, wire, loc, kills, shutCalls>>

\* Query.Hijack, query.go:59-71
Hijack(q) ==
    /\ IF qry[q].fwd
         THEN /\ panicked' = "continue and hijack"
              /\ UNCHANGED qry
              /\ UNCHANGED <<conns, conn>>
         ELSE IF ~qry[q].srv
         THEN /\ panicked' = "nil pointer dereference"
              /\ qry' = [qry EXCEPT ![q].fwd = TRUE, ![q].hijacked = TRUE]
              /\ UNCHANGED <<conns, conn>>
         ELSE /\ qry' = [qry EXCEPT ![q].fwd = TRUE,
                                    ![q].hijacked = TRUE, ![q].srv = FALSE]
              /\ unregister(ConnOf(q))
              /\ conn' = [conn EXCEPT ![ConnOf(q)].hij = TRUE]
              /\ UNCHANGED panicked
    /\ UNCHANGED <<newVars, fdlVars, cliVars, dspVars, pc, listen, lclosed, qclosed, mu, exts, wire, loc, kills,
                   shutCalls>>

\* User code holds a Query that Read returned or that a sub-handler was
\* given; it calls the methods of one Query one after the other.
\* user code calls q.Continue()
UserContinue(q) ==
    /\ Running
    /\ qry[q].st = "user"
    /\ pc[Wr(q)] = "off"
    /\ Continue(q, pc)

\* user code calls q.Hijack()
UserHijack(q) ==
    /\ Running
    /\ qry[q].st = "user"
    /\ pc[Wr(q)] = "off"
    /\ Hijack(q)

\* user code calls q.Write(resp)
UserWrite(q) ==
    /\ Running
    /\ qry[q].st = "user"
    /\ pc[Wr(q)] = "off"
    /\ qry[q].writes < MaxWrites
    /\ qry' = [qry EXCEPT ![q].writes = @ + 1]
    /\ Goto(Wr(q), "w_start")
    /\ UNCHANGED <<newVars, fdlVars, cliVars, dspVars, panicked, srvVars, conn, wire, loc, kills, shutCalls>>

\* ContinueAndWrite without its call of Continue: the worker goes straight
\* to Write
WriteOnly(w) ==
    /\ Running
    /\ pc[Wk(w)] = "wk_continue"
    /\ Goto(Wk(w), "w_start")
    /\ UNCHANGED <<newVars, fdlVars, cliVars, dspVars, panicked, srvVars, conn, wire, qry, loc,
                   kills, shutCalls>>

\* ContinueAndWrite as Write followed by Continue: the Query is marked
\* forwarded, but the reader is not started before the response is written
WriteAndContinue(w) ==
    /\ Running
    /\ pc[Wk(w)] = "wk_continue"
    /\ qry' = [qry EXCEPT ![loc[Wk(w)]].fwd = TRUE]
    /\ Goto(Wk(w), "w_start")
    /\ UNCHANGED <<newVars, fdlVars, cliVars, dspVars, panicked, srvVars, conn, wire, loc, kills,
                   shutCalls>>

\* Launch, part_007:533 with Query.ContinueAndWrite, query.go:116-119:
\* q.Continue(), then q.Write
ContinueAndWrite(w) ==
    /\ Running
    /\ pc[Wk(w)] = "wk_continue"
    /\ Continue(loc[Wk(w)], [pc EXCEPT ![Wk(w)] = "w_start"])

\* what a task does when Write returns
WriteReturn(t) == IF Kind(t) = "wk" THEN "wk_recv" ELSE "off"

\* Write with the reverse chain matched on the path the request has now,
\* q.Req.URL.Path, not on q.origPath: the variant that matching on the path
\* of arrival must tell apart from the code
WriteCurrentPath(t) ==
    LET q == QueryArg(t)
        chain == Matching(copyExtRev, qry[q].path)
    IN
    /\ Running
    /\ pc[t] = "w_start"
    /\ IF ~qry[q].srv
         THEN /\ panicked' = "nil pointer dereference"
              /\ qry' = BodyClosed(t, q, [qry EXCEPT ![q].req = FALSE, ![q].closes = 0])
              /\ UNCHANGED pc
         ELSE /\ mu = Free
              /\ UNCHANGED panicked
              /\ \E fail \in 0..Len(chain) :
                    /\ qry' = [qry EXCEPT ![q].req = FALSE, ![q].wr = Invoked(chain, fail),
                                          ![q].closes = 0]
                    /\ Goto(t, IF fail # 0 THEN "bury" ELSE "w_wire")
    /\ UNCHANGED <<newVars, fdlVars, cliVars, dspVars, srvVars, conn, wire, loc, kills, shutCalls>>

\* Write that goes on to q.ssc.Write when a WriteResponse hook has failed:
\* the variant that the abort of the reverse chain must tell apart from
\* the code
WriteAfterHookError(t) ==
    LET q == QueryArg(t)
        chain == Matching(copyExtRev, ReqPath(IdxOf(q)))
    IN
    /\ Running
    /\ pc[t] = "w_start"
    /\ IF ~qry[q].srv
         THEN /\ panicked' = "nil pointer dereference"
              /\ qry' = BodyClosed(t, q, [qry EXCEPT ![q].req = FALSE, ![q].closes = 0])
              /\ UNCHANGED pc
         ELSE /\ mu = Free
              /\ UNCHANGED panicked
              /\ \E fail \in 0..Len(chain) :
                    /\ qry' = [qry EXCEPT ![q].req = FALSE, ![q].wr = Invoked(chain, fail),
                                          ![q].closes = 0]
                    /\ Goto(t, "w_wire")
    /\ UNCHANGED <<newVars, fdlVars, cliVars, dspVars, srvVars, conn, wire, loc, kills, shutCalls>>

\* Query.Write, query.go:76-101: the Close of the body is deferred, q.Req =
\* nil, then the reverse chain over a copy of srv.exts; a failing hook
\* buries the connection.  closes counts the calls of Close on the body of
\* the response given to this call
Write(t) ==
    LET q == QueryArg(t)
        chain == Matching(copyExtRev, ReqPath(IdxOf(q)))
    IN
    /\ Running
    /\ pc[t] = "w_start"
    /\ IF ~qry[q].srv
         THEN /\ panicked' = "nil pointer dereference"
              /\ qry' = BodyClosed(t, q, [qry EXCEPT ![q].req = FALSE, ![q].closes = 0])
              /\ UNCHANGED pc
         ELSE /\ mu = Free
              /\ UNCHANGED panicked
              /\ \E fail \in 0..Len(chain) :
                    /\ qry' = [qry EXCEPT ![q].req = FALSE, ![q].wr = Invoked(chain, fail),
                                          ![q].closes = 0]
                    /\ Goto(t, IF fail # 0 THEN "bury" ELSE "w_wire")
    /\ UNCHANGED <<newVars, fdlVars, cliVars, dspVars, srvVars, conn, wire, loc, kills, shutCalls>>

\* ServerConn.Write of the wire codec: serializes one response on the
\* connection, or fails
ServerConnWrite(c, k) ==
    /\ conn[c].sock = "open"
    /\ wire' = [wire EXCEPT ![c] = Append(@, k)]

\* WriteWire with the statistics updated before the error test of
\* q.ssc.Write: the variant that the statistics of a failed Write must tell
\* apart from the code
WriteWireCountFirst(t) ==
    LET q == QueryArg(t)
        c == ConnOf(q)
    IN
    /\ Running
    /\ pc[t] = "w_wire"
    /\ conn' = [conn EXCEPT ![c].stale = FALSE, ![c].touched = @ \/ conn[c].hij]
    /\ \E d \in 1..MaxLat :
          stats' = [stats EXCEPT !.resp = @ + 1, !.maxrt = IF d > @ THEN d ELSE @]
    /\ \/ /\ ServerConnWrite(c, IdxOf(q))
          /\ qry' = BodyClosed(t, q, qry)
          /\ Goto(t, WriteReturn(t))
       \/ Goto(t, "bury") /\ UNCHANGED <<wire, qry>>
    /\ UNCHANGED <<newVars, fdlVars, cliVars, subs, errq, panicked, srvVars, loc, kills, shutCalls>>

\* Query.Write, query.go:103-113 with StampedServerConn.Write,
\* stamped.go:49-53: the response is written, or the write fails and the
\* connection is buried
WriteWire(t) ==
    LET q == QueryArg(t)
        c == ConnOf(q)
    IN
    /\ Running
    /\ pc[t] = "w_wire"
    /\ conn' = [conn EXCEPT ![c].stale = FALSE, ![c].touched = @ \/ conn[c].hij]
    /\ \/ /\ ServerConnWrite(c, IdxOf(q))
          \* query.go:111-112: AddReqRespTime(now - q.t0); IncResponse()
          /\ \E d \in 1..MaxLat :
                stats' = [stats EXCEPT !.resp = @ + 1,
                                       !.maxrt = IF d > @ THEN d ELSE @]
          /\ qry' = BodyClosed(t, q, qry)
          /\ Goto(t, WriteReturn(t))
       \/ Goto(t, "bury") /\ UNCHANGED <<wire, stats, qry>>
    /\ UNCHANGED <<newVars, fdlVars, cliVars, subs, errq, panicked, srvVars, loc, kills, shutCalls>>

\* the owner of a hijacked connection closes it
UserClose(c) ==
    /\ Running
    /\ conn[c].hij
    /\ pc[Usr(c)] = "off"
    /\ Goto(Usr(c), "close")
    /\ UNCHANGED <<newVars, fdlVars, cliVars, dspVars, panicked, srvVars, conn, wire, qry, loc, kills, shutCalls>>

\* --------------------------------------------------------- specification
\* largest config.Timeout (in nanoseconds) given to NewServer
MaxTimeout == 2

\* the state before NewServer is called with the arguments c and n: the
\* zero values, and no task running
Unborn(c, n) ==
    /\ config = c
    /\ fdlim = n
    /\ nfych = FALSE
    /\ nfy = <<>>
    /\ asc = NoAsyncServerConn
    /\ limit = 0
    /\ count = 0
    /\ lk = Free
    /\ pc = [t \in Tasks |-> "off"]
    /\ ns = [t \in Clients |-> 0]
    /\ waitsofar = [t \in Clients |-> 0]
    /\ result = [t \in Clients |-> "none"]
    /\ ch = [t \in Clients |-> "none"]
    /\ msg = [t \in Clients |-> "nil"]
    /\ panicked = "none"
    /\ listen = FALSE /\ lclosed = FALSE /\ qclosed = FALSE
    /\ mu = Free
    /\ conns = {}
    /\ exts = <<>>
    /\ subs = <<>>
    /\ stats = NoStats
    /\ errq = 0
    /\ conn = [c0 \in ConnIds |-> NoConn]
    /\ wire = [c0 \in ConnIds |-> <<>>]
    /\ qry = [q \in QueryIds |-> NoQuery]
    /\ loc = [t \in ServerTasks |-> 0]
    /\ kills = {}
    /\ shutCalls = 0

\* NewServer, part_007:392-408, with FDLimiter.Init, roc.go:78-87: the
\* checks of the arguments, then go srv.acceptLoop(); go srv.expireLoop().
\* The mutant starts the loops before the limiter is initialised.
NewServerLoopsFirst ==
    /\ Running
    /\ limit = 0
    /\ pc[Acc] = "off"
    /\ IF config.Timeout < 2
         THEN /\ panicked' = "timeout too small"
              /\ UNCHANGED <<limit, pc, listen>>
         ELSE /\ pc' = [pc EXCEPT ![Acc] = "acc_top", ![Exp] = "exp_scan"]
              /\ listen' = TRUE
              /\ IF fdlim <= 0
                   THEN panicked' = "FDLimiter, bad limit" /\ UNCHANGED limit
                   ELSE limit' = fdlim /\ UNCHANGED panicked
    /\ UNCHANGED <<newVars, count, lk, cliVars, dspVars, lclosed, qclosed, mu, conns, exts, conn,
                   wire, qry, loc, kills, shutCalls>>

NewServer ==
    /\ Running
    /\ limit = 0
    /\ pc[Acc] = "off"
    /\ IF config.Timeout < 2
         THEN /\ panicked' = "timeout too small"
              /\ UNCHANGED <<limit, pc, listen>>
         ELSE IF fdlim <= 0
                THEN /\ panicked' = "FDLimiter, bad limit"
                     /\ UNCHANGED <<limit, pc, listen>>
                ELSE /\ limit' = fdlim
                     /\ listen' = TRUE
                     /\ pc' = [pc EXCEPT ![Acc] = "acc_top", ![Exp] = "exp_scan"]
                     /\ UNCHANGED panicked
    /\ UNCHANGED <<newVars, count, lk, cliVars, dspVars, lclosed, qclosed, mu, conns, exts, conn,
                   wire, qry, loc, kills, shutCalls>>

\* Launch(NWorkers), part_007:525-537: the workers are started
Launch ==
    /\ Running
    /\ limit > 0
    /\ ~qclosed
    /\ errq = 0
    /\ \A t \in Workers : pc[t] = "off" /\ loc[t] = 0
    /\ pc' = [t \in Tasks |-> IF t \in Workers THEN "wk_recv" ELSE pc[t]]
    /\ UNCHANGED <<newVars, fdlVars, cliVars, dspVars, panicked, srvVars, conn, wire, qry, loc,
                   kills, shutCalls>>

\* the state after NewServer(l, Config{MaxTimeout}, n) and Launch(NWorkers)
Launched(n) ==
    /\ config = [Timeout |-> MaxTimeout]
    /\ fdlim = n
    /\ nfych = FALSE
    /\ nfy = <<>>
    /\ asc = NoAsyncServerConn
    /\ limit = n
    /\ count = 0
    /\ lk = Free
    /\ pc = [t \in Tasks |->
               IF t = Acc THEN "acc_top"
               ELSE IF t = Exp THEN "exp_scan"
               ELSE IF t \in Workers THEN "wk_recv"
               ELSE "off"]
    /\ ns = [t \in Clients |-> 0]
    /\ waitsofar = [t \in Clients |-> 0]
    /\ result = [t \in Clients |-> "none"]
    /\ ch = [t \in Clients |-> "none"]
    /\ msg = [t \in Clients |-> "nil"]
    /\ panicked = "none"
    /\ listen = TRUE /\ lclosed = FALSE /\ qclosed = FALSE
    /\ mu = Free
    /\ conns = {}
    /\ exts = <<>>
    /\ subs = <<>>
    /\ stats = NoStats
    /\ errq = 0
    /\ conn = [c \in ConnIds |-> NoConn]
    /\ wire = [c \in ConnIds |-> <<>>]
    /\ qry = [q \in QueryIds |-> NoQuery]
    /\ loc = [t \in ServerTasks |-> 0]
    /\ kills = {}
    /\ shutCalls = 0

\* a server with the FD limit FdLim
Init == Launched(FdLim)

\* a server with the FD limit Limit
InitLimit == Launched(Limit)

\* a call of NewServer with any arguments
InitNew ==
    \E c \in [Timeout : 0..MaxTimeout], n \in (0 - 1)..FdLim : Unborn(c, n)

\* the steps of closing a connection, for a task t
CloseSteps(t) ==
    \/ bury(t)
    \/ Close(t)
    \/ closeUnlock(t)
    \/ closeSend(t)
    \/ closeSetNil(t)

\* The request pipeline: connections are accepted, their requests are read,
\* dispatched and answered by Launch workers and by user code, while
\* extensions are registered.
Next ==
    \/ acceptLoop
    \/ acceptLock
    \/ accept /\ OnlyConns(PipeConns)
    \/ acceptRegister
    \/ AddExt
    \/ \E c \in ConnIds : read(c)
    \/ \E w \in 1..NWorkers : Read(w) \/ process(w) \/ ContinueAndWrite(w)
    \/ \E q \in QueryIds : UserContinue(q) \/ UserHijack(q) \/ UserWrite(q)
    \/ \E t \in Workers \cup Writers : Write(t) \/ WriteWire(t)
    \/ \E t \in Readers \cup Workers \cup Writers : CloseSteps(t)

Spec == Init /\ [][Next]_vars

\* The life of a connection: accept (also failing), idle expiry, Hijack, the
\* owner's Close, failing reads and writes, and Shutdown, with one caller of
\* Read who is not a Launch worker and clients that send one request on a
\* connection.
NextShutdown ==
    \/ acceptLoop
    \/ acceptLock
    \/ accept /\ OnlyConns(PipeConns)
    \/ acceptError /\ OnlyConns(PipeConns)
    \/ acceptUnlock
    \/ acceptRegister
    \/ expireLoop
    \/ expireKill
    \/ Shutdown
    \/ ShutdownClose
    \/ ShutdownLock
    \/ ShutdownLoop
    \/ \E c \in ConnIds : \/ conn[c].nreq = 0 /\ read(c)
                          \/ readSendClosed(c)
                          \/ Idle(c)
                          \/ UserClose(c)
    \/ Read(1)
    \/ ReadClosed(1)
    \/ process(1) /\ qry'[loc[Wk(1)]].st # "launch"
    \/ \E q \in QueryIds : UserContinue(q) \/ UserHijack(q) \/ UserWrite(q)
    \/ \E t \in Writers : Write(t) \/ WriteWire(t)
    \/ \E t \in {Exp, Shut} \cup Readers \cup Writers \cup Owners : CloseSteps(t)

SpecShutdown == Init /\ [][NextShutdown]_vars

\* Write on two connections: one caller of Read, who may be a Launch
\* worker, receives the first request of every connection, and the Queries
\* are answered with failing hooks and failing writes.
NextWrite ==
    \/ acceptLoop
    \/ acceptLock
    \/ accept
    \/ acceptRegister
    \/ AddExt
    \/ \E c \in ConnIds : conn[c].nreq = 0 /\ read(c)
    \/ Read(1)
    \/ process(1)
    \/ ContinueAndWrite(1)
    \/ \E q \in QueryIds : UserContinue(q) \/ UserWrite(q)
    \/ \E t \in {Wk(1)} \cup Writers : Write(t) \/ WriteWire(t)
    \/ \E t \in Readers \cup {Wk(1)} \cup Writers : CloseSteps(t)

SpecWrite == Init /\ [][NextWrite]_vars

\* Dispatch: sub-handlers and extensions are registered while one caller of
\* Read, who may be a Launch worker, receives the first request of a connection;
\* the Queries are served by sub-handlers, by the caller of Read or by the
\* worker.
NextDispatch ==
    \/ acceptLoop
    \/ acceptLock
    \/ accept /\ OnlyConns(PipeConns)
    \/ acceptRegister
    \/ AddSub
    \/ AddExt
    \/ \E c \in ConnIds : conn[c].nreq = 0 /\ read(c)
    \/ Read(1)
    \/ process(1)
    \/ ContinueAndWrite(1)
    \/ \E q \in QueryIds : UserContinue(q) \/ UserWrite(q)
    \/ \E t \in {Wk(1)} \cup Writers : Write(t) \/ WriteWire(t)
    \/ \E t \in Readers \cup {Wk(1)} \cup Writers : CloseSteps(t)

SpecDispatch == Init /\ [][NextDispatch]_vars

\* Paths: dispatch as in SpecDispatch, with extensions whose ReadRequest
\* rewrites the URL path of the request.
NextPaths ==
    \/ acceptLoop
    \/ acceptLock
    \/ accept /\ OnlyConns(PipeConns)
    \/ acceptRegister
    \/ AddSub
    \/ AddExt
    \/ \E c \in ConnIds : conn[c].nreq = 0 /\ read(c)
    \/ Read(1)
    \/ processRewrite(1)
    \/ ContinueAndWrite(1)
    \/ \E q \in QueryIds : UserContinue(q) \/ UserWrite(q)
    \/ \E t \in {Wk(1)} \cup Writers : Write(t) \/ WriteWire(t)
    \/ \E t \in Readers \cup {Wk(1)} \cup Writers : CloseSteps(t)

SpecPaths == Init /\ [][NextPaths]_vars

\* Statistics: the requests of one connection are read, counted and
\* answered with 404 by a Launch worker.
NextStats ==
    \/ acceptLoop
    \/ acceptLock
    \/ accept /\ OnlyConns(PipeConns)
    \/ acceptRegister
    \/ \E c \in ConnIds : read(c) \/ IncRequest(c)
    \/ Read(1)
    \/ process(1) /\ qry'[loc[Wk(1)]].st = "launch"
    \/ ContinueAndWrite(1)
    \/ Write(Wk(1))
    \/ WriteWire(Wk(1))
    \/ \E t \in Readers \cup {Wk(1)} : CloseSteps(t)

SpecStats == Init /\ [][NextStats]_vars

\* Accept errors: the accept loop, whose Accept can fail, a Launch worker
\* that answers the first request of every connection, and failing reads
\* and writes.
NextAccept ==
    \/ acceptLoop
    \/ acceptLock
    \/ accept
    \/ acceptError
    \/ acceptUnlock
    \/ acceptRegister
    \/ \E c \in ConnIds : conn[c].nreq = 0 /\ read(c)
    \/ Read(1)
    \/ ReadError(1)
    \/ process(1) /\ qry'[loc[Wk(1)]].st = "launch"
    \/ ContinueAndWrite(1)
    \/ Write(Wk(1))
    \/ WriteWire(Wk(1))
    \/ \E t \in Readers \cup {Wk(1)} : CloseSteps(t)

\* Every task that can take a step eventually takes one: the Go scheduler
\* runs the runnable goroutines, and the clients connect and send.
SpecAcceptFair == InitLimit /\ [][NextAccept]_vars /\ WF_vars(NextAccept)

\* One Shutdown of a server with Launch workers: the listener is closed, so
\* the Accept of the accept loop fails, and the connections are force-closed.
NextStop ==
    \/ acceptLoop
    \/ acceptLock
    \/ accept
    \/ lclosed /\ acceptError
    \/ acceptUnlock
    \/ acceptSendClosed
    \/ acceptRegister
    \/ shutCalls = 0 /\ Shutdown
    \/ ShutdownClose
    \/ ShutdownLock
    \/ ShutdownLoop
    \/ \E c \in ConnIds : \/ conn[c].nreq = 0 /\ read(c)
                          \/ readSendClosed(c)
    \/ \E w \in 1..NWorkers :
          \/ Read(w)
          \/ ReadClosed(w)
          \/ process(w) /\ qry'[loc[Wk(w)]].st = "launch"
          \/ ContinueAndWrite(w)
          \/ Write(Wk(w))
          \/ WriteWire(Wk(w))
    \/ \E t \in {Shut} \cup Readers \cup {Wk(w) : w \in 1..NWorkers} : CloseSteps(t)

\* Every task that can take a step eventually takes one.
SpecStopFair == InitLimit /\ [][NextStop]_vars /\ WF_vars(NextStop)

\* Idle connections: the accept loop, the expire loop, and connections
\* that fall idle before their first request or while its Query is in the
\* hands of the caller of Read.
NextExpire ==
    \/ acceptLoop
    \/ acceptLock
    \/ accept
    \/ acceptRegister
    \/ expireLoop
    \/ expireKill
    \/ \E c \in ConnIds : \/ conn[c].nreq = 0 /\ read(c)
                          \/ Idle(c)
    \/ Read(1)
    \/ process(1) /\ qry'[loc[Wk(1)]].st # "launch"
    \/ \E t \in {Exp} \cup Readers : CloseSteps(t)

\* Every task that can take a step eventually takes one; the expire loop
\* wakes from its sleep.
SpecExpireFair == InitLimit /\ [][NextExpire]_vars /\ WF_vars(NextExpire)

\* Dropped Queries: the accept loop, the expire loop, extensions added
\* with AddExt, and one caller of Read whose forward chain may fail; a
\* connection sends one request.
NextDrop ==
    \/ acceptLoop
    \/ acceptLock
    \/ accept
    \/ acceptRegister
    \/ AddExt
    \/ expireLoop
    \/ expireKill
    \/ \E c \in ConnIds : \/ conn[c].nreq = 0 /\ read(c)
                          \/ Idle(c)
    \/ Read(1)
    \/ process(1) /\ qry'[loc[Wk(1)]].st # "launch"
    \/ \E t \in {Exp} \cup Readers : CloseSteps(t)

\* Every task that can take a step eventually takes one; the expire loop
\* wakes from its sleep, and a connection without I/O grows idle.
SpecDropFair == InitLimit /\ [][NextDrop]_vars /\ WF_vars(NextDrop)

\* Saturation: the accept loop at the FD limit FdLim, with connections that
\* are closed by their readers, and Queries answered by a Launch worker.
NextSaturate ==
    \/ acceptLoop
    \/ acceptLock
    \/ accept
    \/ acceptRegister
    \/ \E c \in ConnIds : conn[c].nreq = 0 /\ read(c)
    \/ Read(1)
    \/ process(1) /\ qry'[loc[Wk(1)]].st = "launch"
    \/ ContinueAndWrite(1)
    \/ Write(Wk(1))
    \/ WriteWire(Wk(1))
    \/ \E t \in Readers \cup {Wk(1)} : CloseSteps(t)

\* Every task that can take a step eventually takes one, and the clients
\* connect.
SpecSaturateFair == Init /\ [][NextSaturate]_vars /\ WF_vars(NextSaturate)

\* Waiters: NClients tasks call Lock and Unlock on one FDLimiter of limit
\* Limit, in any order and any number of times.
NextWaiters ==
    \E t \in Clients :
        \/ Call(t) /\ pc'[t] \in {"fdl_lock", "fdl_unlock"}
        \/ Lock(t)
        \/ Unlock(t)
        \/ UnlockSend(t)

\* The scheduler runs every task that can take a step inside Lock or Unlock;
\* whether and when a task calls Lock or Unlock again is up to the task.
SpecWaitersFair ==
    /\ InitFDL
    /\ [][NextWaiters]_vars
    /\ \A t \in Clients : WF_vars(Lock(t) \/ Unlock(t) \/ UnlockSend(t))

\* an FDLimiter after Init and SetNotifyChan(c) with c != nil (roc.go:78-96)
InitNotify ==
    /\ limit = Limit
    /\ count = 0
    /\ lk = Free
    /\ pc = [t \in Tasks |-> IF t \in Clients THEN "idle" ELSE "off"]
    /\ ns = [t \in Clients |-> 0]
    /\ waitsofar = [t \in Clients |-> 0]
    /\ result = [t \in Clients |-> "none"]
    /\ ch = [t \in Clients |-> "none"]
    /\ msg = [t \in Clients |-> "nil"]
    /\ panicked = "none"
    /\ nfych = TRUE
    /\ nfy = <<>>
    /\ asc = NoAsyncServerConn
    /\ ServerIdle

\* Notification: NClients tasks use an FDLimiter whose notify channel is
\* registered and whose owner receives every value sent on it.
NextNotify ==
    \E t \in Clients :
        \/ Len(nfy) < MaxNfy /\ Call(t)
        \/ notifyLock(t)
        \/ Lock(t) /\ UNCHANGED count
        \/ LockOrTimeout(t) /\ UNCHANGED count
        \/ alarmOnce(t)
        \/ LockOrChan(t) /\ UNCHANGED count
        \/ CancelSend(t)
        \/ LockOrChanMsg(t)
        \/ notifyUnlock(t)
        \/ notify(t)
        \/ UnlockSend(t)

SpecNotify == InitNotify /\ [][NextNotify]_vars

\* an AsyncServerConn after NewAsyncServerConn (aserverconn.go:35-42), used by
\* NClients tasks
InitAsync ==
    /\ limit = 0
    /\ count = 0
    /\ lk = Free
    /\ pc = [t \in Tasks |-> IF t \in Clients THEN "idle" ELSE "off"]
    /\ ns = [t \in Clients |-> 0]
    /\ waitsofar = [t \in Clients |-> 0]
    /\ result = [t \in Clients |-> "none"]
    /\ ch = [t \in Clients |-> "none"]
    /\ msg = [t \in Clients |-> "nil"]
    /\ panicked = "none"
    /\ nfych = FALSE
    /\ nfy = <<>>
    /\ asc = [sc |-> TRUE, queries |-> <<>>, wire |-> <<>>, nread |-> 0, called |-> {},
              req |-> [t \in Clients |-> 0], pq |-> [t \in Clients |-> 0]]
    /\ ServerIdle

\* Pipelining: NClients tasks read the requests of one connection and
\* answer them, each request by one task, in any order.
NextAsync ==
    \E t \in Clients :
        \/ ascRead(t)
        \/ ascCall(t)
        \/ placeResponse(t)
        \/ popServable(t)
        \/ ascWrite(t)
        \/ ascClose(t)

SpecAsync == InitAsync /\ [][NextAsync]_vars

\* Hosted mode from the call of NewServer: Launch(NWorkers), extensions, one
\* connection with pipelined requests, and workers that answer every Query
\* with ContinueAndWrite.
NextLaunch ==
    \/ NewServer
    \/ Launch
    \/ limit > 0 /\ AddExt
    \/ acceptLoop
    \/ acceptLock
    \/ accept /\ OnlyConns(PipeConns)
    \/ acceptRegister
    \/ \E c \in ConnIds : read(c)
    \/ \E w \in 1..NWorkers :
          \/ Read(w)
          \/ process(w) /\ qry'[loc[Wk(w)]].st = "launch"
          \/ ContinueAndWrite(w)
          \/ Write(Wk(w))
          \/ WriteWire(Wk(w))
    \/ \E t \in Readers \cup Workers : CloseSteps(t)

SpecLaunch == InitNew /\ [][NextLaunch]_vars

\* Dispatch in the server without extensions (server.go): sub-handlers are
\* registered while the requests of one connection are dispatched under the
\* server mutex and handled by user code.
NextDispatchLocked ==
    \/ acceptLoop
    \/ acceptLock
    \/ accept /\ OnlyConns(PipeConns)
    \/ acceptRegister
    \/ AddSub
    \/ \E c \in ConnIds : conn[c].nreq = 0 /\ read(c)
    \/ Read(1)
    \/ dispatch(1)
    \/ dispatchReturn(1)
    \/ \E q \in QueryIds : UserContinue(q) \/ UserHijack(q) \/ UserWrite(q)
    \/ \E t \in Writers : Write(t) \/ WriteWire(t)
    \/ \E t \in Readers \cup Writers : CloseSteps(t)

SpecDispatchLocked == Init /\ [][NextDispatchLocked]_vars

\* ================================================================== claims
\* the responses on connection c are in the order of their requests
InRequestOrder(c) ==
    \A i, j \in 1..Len(wire[c]) : i < j => wire[c][i] <= wire[c][j]

\* C1: on every connection the responses serialized appear in the order in
\* which their requests were parsed, whoever the handlers are
C1_ResponsesInRequestOrder == \A c \in ConnIds : InRequestOrder(c)

\* C2: a call of Continue or Hijack on a Query that was already forwarded
\* panics, and neither spawns a reader nor changes the live set
C2_SecondForwardPanics ==
    [][\A q \in QueryIds :
          (qry[q].fwd /\ (UserContinue(q) \/ UserHijack(q)))
              => /\ panicked' \in {"continue/hijack", "continue and hijack"}
                 /\ pc' = pc
                 /\ conns' = conns]_vars

\* a Continue on a Query that was hijacked before has panicked
C2_Witness ==
    /\ panicked = "continue/hijack"
    /\ \E q \in QueryIds : qry[q].hijacked

\* the Queries of connection c handed to the dispatch channel and not yet
\* forwarded
Unforwarded(c) ==
    {q \in QueryIds : ConnOf(q) = c /\ qry[q].st # "none" /\ ~qry[q].fwd}

\* C4: while a Query of a connection is handed over and not yet forwarded,
\* no reader of that connection is reading, and no second such Query exists
C4_ReadGate ==
    \A c \in ConnIds :
        /\ Cardinality(Unforwarded(c)) <= 1
        /\ Unforwarded(c) # {} => pc[Rd(c)] \in {"off", "rd_send"}

\* the second request of a connection is in user hands, not yet forwarded,
\* after the first one was continued
C4_Witness ==
    \E c \in ConnIds :
        /\ qry[Qid(c, 1)].fwd /\ ~qry[Qid(c, 1)].hijacked
        /\ qry[Qid(c, 2)].st = "user" /\ ~qry[Qid(c, 2)].fwd

\* C5: after Hijack returned, the server neither reads, writes nor closes
\* the connection, and the connection is not in the live set
C5_HijackedUntouched ==
    \A c \in ConnIds : conn[c].hij => (~conn[c].touched /\ c \notin conns)

\* the number of responses serialized on c for its k-th request
Responses(c, k) == Cardinality({i \in 1..Len(wire[c]) : wire[c][i] = k})

\* C6: at most one response is serialized for a Query
C6_AtMostOneResponse ==
    \A c \in ConnIds : \A k \in 1..MaxReq : Responses(c, k) <= 1

\* C7: the permit acquired for a connection is released at most once,
\* however many tasks close the connection
C7_PermitReleasedOnce == \A c \in ConnIds : conn[c].rel <= 1

\* C8: a second call of Shutdown returns normally
C8_SecondShutdownReturns == panicked # "close of closed channel"

\* C9: once the first Shutdown has returned, the live set is empty
C9_NoConnAfterShutdown ==
    (shutCalls >= 2 \/ (shutCalls = 1 /\ pc[Shut] = "off")) => conns = {}

\* a response for Query q is on the wire
Written(q) == Responses(ConnOf(q), IdxOf(q)) > 0

\* C10: for a written Query the WriteResponse hooks that ran are the
\* ReadRequest hooks that ran, in reverse order
C10_ChainSymmetry ==
    \A q \in QueryIds : Written(q) => qry[q].wr = Reverse(qry[q].rd)

\* the sub-handlers registered now whose SubURL is a prefix of the path
\* Query q arrived with
SubMatches(q) == {i \in 1..Len(subs) : HasPrefix(ReqPath(IdxOf(q)), subs[i])}

\* C11: a step of dispatch that lets a Query pass the forward chain calls
\* Serve on the first sub-handler in registration order whose SubURL is a
\* prefix of the path, hands it the path without that prefix and does not
\* return the Query from Read; with no match it calls no sub-handler
C11_FirstMatchingSub ==
    [][\A q \in QueryIds :
          (qry[q].st = "proc" /\ qry'[q].st # "proc" /\ qry'[q].fail = 0)
              => IF SubMatches(q) = {}
                   THEN qry'[q].sub = 0 /\ qry'[q].path = ReqPath(IdxOf(q))
                   ELSE /\ qry'[q].sub \in SubMatches(q)
                        /\ \A j \in SubMatches(q) : qry'[q].sub <= j
                        /\ qry'[q].path = Strip(ReqPath(IdxOf(q)), Len(subs[qry'[q].sub]))
                        /\ qry'[q].st = "user"
                        /\ pc'[Wk(1)] = "wk_recv"]_vars

\* a Query was served by the first of two different sub-handlers that both
\* match its path, with a non-empty prefix stripped
C11_Witness ==
    \E q \in QueryIds :
        /\ qry[q].sub = 1 /\ Len(subs) = 2 /\ subs[1] # subs[2]
        /\ SubMatches(q) = {1, 2}
        /\ qry[q].path # ReqPath(IdxOf(q))

\* C12: a Query for which a ReadRequest hook failed is dropped: the hooks
\* after the failing one did not run, no sub-handler was called, Read went
\* on to the next Query, and the Query is neither continued nor answered
C12_FailedChainDropsQuery ==
    \A q \in QueryIds :
        qry[q].fail # 0 =>
            /\ qry[q].st = "dropped"
            /\ Len(qry[q].rd) = qry[q].fail
            /\ qry[q].sub = 0
            /\ pc[Wk(1)] \in {"wk_recv", "off"} \/ loc[Wk(1)] # q
            /\ ~qry[q].fwd /\ qry[q].writes = 0 /\ qry[q].wr = <<>>
            /\ Responses(ConnOf(q), IdxOf(q)) = 0
            /\ pc[Rd(ConnOf(q))] = "off"

\* the first of two matching ReadRequest hooks failed for a Query whose path
\* a registered sub-handler matches
C12_Witness ==
    \E q \in QueryIds :
        /\ qry[q].fail = 1 /\ Len(exts) = 2
        /\ Len(Matching(exts, ReqPath(IdxOf(q)))) = 2
        /\ SubMatches(q) # {}

\* the tasks that call Query.Write in SpecWrite
WriteCallers == {Wk(1)} \cup Writers

\* the labels of a task that buries a connection
BuryLabels == {"bury", "close", "fdl_unlock", "fdl_send", "cl_setnil"}

C17_AcceptErrorReported ==
    (pc[Acc] = "fdl_unlock") ~> (errq = 1 /\ pc[Acc] = "off")

\* C16: after Shutdown has closed the dispatch channel every Read, pending
\* or later, returns the bad-file-descriptor error, so that every Launch
\* worker terminates: from a state where the channel is closed, a state is
\* reached where every worker has returned.  A crash of the program is
\* counted as termination here.
C16_WorkersEndAfterShutdown ==
    qclosed ~> (panicked # "none" \/ \A w \in 1..NWorkers : pc[Wk(w)] = "off")

\* C14: while the server is not shut down, a registered connection that has
\* seen no Read or Write for Timeout is buried by the expire loop within two
\* scan periods: from a state where a registered connection is idle, a
\* state is reached where it is no longer registered, or has done I/O, or
\* the server is shut down.
C14_IdleIsBuried ==
    \A c \in ConnIds :
        (c \in conns /\ conn[c].stale /\ listen)
            ~> (c \notin conns \/ ~conn[c].stale \/ ~listen)

\* C15: a client connection whose acceptance is delayed by saturation is
\* accepted after a live connection is closed: from a state where a permit
\* is free and a client connection is pending, a state is reached where the
\* accept loop has accepted it.
C15_PendingIsAccepted ==
    \A c \in ConnIds :
        (NextConn(c) /\ count < limit) ~> (conn[c].sock # "none")

\* C21: NewServer panics if config.Timeout < 2 or fdlim <= 0 and then starts
\* neither loop; otherwise it starts the accept loop and the expire loop,
\* once, with count = 0 and an empty live set.
C21_NewServerChecksArguments ==
    [][(/\ limit = 0
        /\ pc[Acc] = "off"
        /\ panicked = "none"
        /\ (limit' # limit \/ panicked' # panicked \/ pc' # pc))
       => IF config.Timeout < 2 \/ fdlim <= 0
            THEN /\ panicked' # "none"
                 /\ pc'[Acc] = "off"
                 /\ pc'[Exp] = "off"
                 /\ limit' = 0
            ELSE /\ panicked' = "none"
                 /\ pc'[Acc] = "acc_top"
                 /\ pc'[Exp] = "exp_scan"
                 /\ limit' = fdlim
                 /\ count' = 0
                 /\ conns' = {}]_vars

C21_Witness ==
    /\ panicked = "FDLimiter, bad limit"
    /\ config.Timeout >= 2
    /\ fdlim = 0
    /\ pc[Acc] = "off"
    /\ pc[Exp] = "off"


\* the labels at which a Launch worker holds a Query
Handling == {"wk_process", "wk_continue", "w_start", "w_wire"}

\* C22: in Launch mode a Query that Read returns is in the hands of one
\* worker only, the worker has called Continue when it is in Write, and no
\* request gets two responses.
C22_OneWorkerPerQuery ==
    /\ \A w1, w2 \in 1..NWorkers :
          (w1 # w2 /\ loc[Wk(w1)] # 0) => loc[Wk(w1)] # loc[Wk(w2)]
    /\ \A w \in 1..NWorkers :
          /\ pc[Wk(w)] \in Handling => qry[loc[Wk(w)]].st \in {"proc", "launch"}
          /\ pc[Wk(w)] \in {"w_start", "w_wire"} => qry[loc[Wk(w)]].fwd
    /\ \A c \in ConnIds : \A i, j \in 1..Len(wire[c]) :
          i # j => wire[c][i] # wire[c][j]

C22_Witness ==
    /\ loc[Wk(1)] # 0
    /\ loc[Wk(2)] # 0
    /\ Len(wire[1]) = 2
    /\ \A w \in 1..NWorkers : pc[Wk(w)] = "wk_recv"


InWrite(c) ==
    {t \in Workers \cup Writers :
        pc[t] \in {"w_start", "w_wire"} /\ ConnOf(QueryArg(t)) = c}

\* C24: at most one call of Write is in progress on a connection at any
\* time, whatever the handlers that hold its Queries do
C24_OneWriteInProgress ==
    \A c \in ConnIds : Cardinality(InWrite(c)) <= 1


\* a step of dispatch that routes Query q, which passed the forward chain,
\* while some registered sub-handler matches its path
Routed(q) ==
    /\ qry[q].st = "proc"
    /\ qry'[q].st # "proc"
    /\ qry'[q].fail = 0
    /\ SubMatches(q) # {}

\* C25, as stated: when several registered prefixes match, the Query goes to
\* the sub-handler with the longest matching prefix
C25_LongestPrefixWins ==
    [][\A q \in QueryIds :
          Routed(q) => \A j \in SubMatches(q) :
                          Len(subs[j]) <= Len(subs[qry'[q].sub])]_vars

\* C25, amended: when several registered prefixes match, the Query goes to
\* the one registered first; a longer matching prefix never gets it when a
\* shorter matching one was registered before it
C25_FirstRegisteredWins ==
    [][\A q \in QueryIds :
          Routed(q) => \A j \in SubMatches(q) :
                          /\ qry'[q].sub <= j
                          /\ Len(subs[j]) > Len(subs[qry'[q].sub]) => qry'[q].sub < j]_vars

\* a Query was served by the first registered sub-handler although the
\* second one matches its path with a longer prefix
C25_Witness ==
    \E q \in QueryIds :
        /\ qry[q].sub = 1
        /\ Len(subs) = 2
        /\ SubMatches(q) = {1, 2}
        /\ Len(subs[2]) > Len(subs[1])


\* C26: ContinueAndWrite is Continue followed by Write: its first step has
\* the effect of Continue alone (the Query is marked forwarded and the next
\* reader of the connection is started, with nothing written, no hook run and
\* the connection and the statistics as they were), and the caller then is
\* at the start of Write with a forwarded Query.
C26_ContinueThenWrite ==
    /\ [][\A w \in 1..NWorkers :
             (pc[Wk(w)] = "wk_continue" /\ pc'[Wk(w)] # "wk_continue")
                 => LET q == loc[Wk(w)] IN
                    /\ qry' = [qry EXCEPT ![q].fwd = TRUE]
                    /\ pc' = [pc EXCEPT ![Rd(ConnOf(q))] = "rd_read", ![Wk(w)] = "w_start"]
                    /\ wire' = wire
                    /\ conn' = conn
                    /\ conns' = conns
                    /\ stats' = stats
                    /\ panicked' = panicked]_vars
    /\ [](\A w \in 1..NWorkers :
             pc[Wk(w)] \in {"w_start", "w_wire"}
                 => LET q == loc[Wk(w)] IN
                    /\ qry[q].fwd
                    /\ pc[Wk(w)] = "w_start" => qry[q].wr = <<>>
                    /\ Responses(ConnOf(q), IdxOf(q)) = 0)

\* the next request of the connection is parsed while the response to the
\* first one is not yet written
C26_Witness ==
    /\ pc[Wk(1)] = "w_wire"
    /\ loc[Wk(1)] = Qid(1, 1)
    /\ pc[Rd(1)] = "rd_send"
    /\ conn[1].nreq = 2
    /\ wire[1] = <<>>


\* C27: a task that is inside a sub-handler's Serve, or that calls the hooks
\* of the extensions, does not hold the server mutex
C27_HandlersRunUnlocked ==
    \A w \in 1..NWorkers :
        pc[Wk(w)] \in {"wk_serve", "wk_process"} => mu # Wk(w)


\* task t is at or inside a call of the FD limiter: Lock (roc.go:113-126)
\* or Unlock (roc.go:179-190), the send on fdl.ch included
InLimiter(t) == pc[t] \in {"fdl_lock", "fdl_park", "fdl_unlock", "fdl_send"}

\* C28: no task performs an FD-limiter operation, acquire or release, while
\* it holds the server mutex, on any path, the force-close of Shutdown
\* included.
C28_LimiterOutsideMutex ==
    \A t \in ServerTasks : InLimiter(t) => mu # t


\* C29: after Shutdown the accept loop and the expire loop each exit, and no
\* task sends on the closed dispatch channel, neither the accept loop
\* reporting the error of the listener nor a reader that has just parsed a
\* request.  The second half, which every run of the claim must satisfy:
\* no send on srv.qch finds the channel closed.
C29_NoSendOnClosedChannel ==
    panicked # "send on closed channel"


\* C30: no task that called Lock remains parked forever while count < limit:
\* when several waiters are parked at saturation and as many Unlocks then
\* occur, every one of those waiters obtains a permit.  For every task, the
\* states where it is not parked, or the limiter is saturated, recur.
C30_NoWaiterLeftParked ==
    \A t \in Clients :
        []<>(~(Running /\ pc[t] = "fdl_park" /\ count < limit))


\* a task has changed count and is sending the new count on fdl.nfych
Notifying == \E t \in Clients : pc[t] \in {"fdl_nfy", "fdl_unfy"}

\* the last value published on fdl.nfych, count being 0 at registration
LastNotified == IF nfy = <<>> THEN 0 ELSE nfy[Len(nfy)]

\* C31: with a notify channel registered, every change of count publishes
\* exactly one value on it, the new count, in the order of the changes, and
\* consecutive published values differ by exactly 1.  Count changes only when
\* no publication is pending, and the change makes one pending; a
\* publication appends the current count; count is the last published value
\* except while a publication is pending, when it is one off.
C31_EveryChangeNotified ==
    /\ [][count' # count => (~Notifying /\ Notifying')]_vars
    /\ [][nfy' # nfy => (Notifying /\ ~Notifying' /\ nfy' = Append(nfy, count)
                          /\ count' = count)]_vars
    /\ [](IF Notifying THEN count - LastNotified \in {0 - 1, 1}
                       ELSE count = LastNotified)
    /\ [](\A i \in 1..(Len(nfy) - 1) : nfy[i + 1] - nfy[i] \in {0 - 1, 1})

\* two permits were taken, one was released, waking a parked task, which
\* took it again
C31_Witness ==
    /\ nfy = <<1, 2, 1, 2>>
    /\ \A t \in Clients : pc[t] = "idle"


\* the path Query q arrived with, q.origPath
OrigPath(q) == ReqPath(IdxOf(q))

\* C32: the forward chain and the reverse chain match every extension on
\* the path the request arrived with, the sub-handlers are matched on the
\* path the request has after the forward chain, and neither the prefix a
\* sub-handler strips nor a path an extension rewrites changes which
\* WriteResponse hooks run: the reverse chain runs the extensions registered
\* at the time whose SubURL is a prefix of the path of arrival, up to the
\* first hook that fails.
C32_ExtensionsMatchOrigPath ==
    [][/\ \A q \in QueryIds :
            (qry[q].st = "proc" /\ qry'[q].st # "proc")
                => /\ qry'[q].rd = Invoked(Matching(exts, OrigPath(q)), qry'[q].fail)
                   /\ qry'[q].fail = 0 =>
                         IF qry'[q].sub # 0
                           THEN Route(subs, subs[qry'[q].sub] \o qry'[q].path) = qry'[q].sub
                           ELSE Route(subs, qry'[q].path) = 0
       /\ \A t \in Workers \cup Writers :
            (pc[t] = "w_start" /\ pc'[t] \in {"w_wire", "bury"})
                => LET q == QueryArg(t)
                       chain == Matching(Reverse(exts), OrigPath(q))
                   IN /\ \E fail \in 0..Len(chain) : qry'[q].wr = Invoked(chain, fail)
                      /\ pc'[t] = "w_wire" => qry'[q].wr = chain]_vars

\* a ReadRequest hook rewrote the path of a request, which was then served by
\* a sub-handler whose prefix matches the new path only, and the response
\* was written after the WriteResponse hook of an extension whose SubURL
\* matches the path of arrival only
C32_Witness ==
    \E q \in QueryIds :
        /\ qry[q].sub # 0
        /\ ~HasPrefix(OrigPath(q), subs[qry[q].sub])
        /\ qry[q].wr = <<2, 1>>
        /\ ~HasPrefix(subs[qry[q].sub] \o qry[q].path, SubURL(2))
        /\ Responses(ConnOf(q), IdxOf(q)) = 1


\* C33: when the k-th WriteResponse hook of the reverse chain fails, the
\* hooks after it are not invoked, the response is not serialized on the
\* connection, the hooks that ran stay as they ran, and the connection is
\* buried: taken out of the live set and closed.  A Write serializes only
\* after the whole chain has run.
C33_HookFailureBuries ==
    [][\A t \in WriteCallers :
          LET q == QueryArg(t)
              c == ConnOf(q)
              chain == Matching(Reverse(exts), OrigPath(q))
          IN
          /\ (pc[t] = "w_start" /\ pc'[t] # "w_start")
                => \/ pc'[t] = "w_wire" /\ qry'[q].wr = chain
                   \/ /\ pc'[t] = "bury"
                      /\ \E k \in 1..Len(chain) : qry'[q].wr = SubSeq(chain, 1, k)
                      /\ wire' = wire
          /\ (pc'[t] = "w_wire" /\ pc[t] # "w_wire") => pc[t] = "w_start"
          /\ (pc[t] \in BuryLabels /\ pc'[t] # pc[t])
                => /\ qry'[q].wr = qry[q].wr
                   /\ wire' = wire
                   /\ pc[t] = "bury" => (pc'[t] = "close" /\ c \notin conns')
                   /\ pc[t] = "close" => (conn'[c].sock = "closed" /\ c \notin conns')]_vars

\* the first of the two hooks of a reverse chain failed: the second one did
\* not run, nothing was serialized, the connection is closed and out of the
\* live set, and Write has returned
C33_Witness ==
    \E q \in QueryIds :
        /\ Len(Matching(exts, OrigPath(q))) = 2
        /\ qry[q].wr = <<2>>
        /\ qry[q].writes = 1 /\ ~qry[q].srv /\ pc[Wr(q)] = "off"
        /\ wire[ConnOf(q)] = <<>>
        /\ conn[ConnOf(q)].sock = "closed" /\ ConnOf(q) \notin conns


C35_ResponsesInReadOrder ==
    \A i, j \in 1..Len(asc.wire) : i < j => asc.wire[i] < asc.wire[j]


\* C36: Unlock always returns: when its decrement takes count from limit to
\* limit-1 and no task is parked on fdl.ch, Unlock still completes and frees
\* fdl.lk, so that later Lock and Unlock calls can proceed.  A task parks
\* only after it has held fdl.lk, so a task that holds fdl.lk at the send
\* of Unlock returns only if a task is parked already: in every state one is.
C36_UnlockFindsReceiver ==
    \A t \in Clients :
        (pc[t] = "fdl_send" /\ lk = t) => \E r \in Clients : Parked(r)


\* the requests parsed so far on the connections 1..n
RECURSIVE Parsed(_)
Parsed(n) == IF n = 0 THEN 0 ELSE conn[n].nreq + Parsed(n - 1)

\* C37: in every reachable state ResponseCount <= RequestCount <= the
\* number of requests parsed, under every interleaving of the reader, which
\* counts the request after it has handed the Query over, and the Write of
\* the handler.
C37_CountersOrdered ==
    /\ stats.resp <= stats.req
    /\ stats.req <= Parsed(MaxConns)


\* C38: Shutdown always returns, also when the FD limiter is saturated and
\* the accept loop is parked on the limiter or blocked in Accept at the time
\* of the call, and with any number of live connections to force-close: from
\* a state where Shutdown has been called, a state is reached where it has
\* returned.  A crash of the program is counted as a return here.
C38_ShutdownReturns ==
    (pc[Shut] # "off") ~> (pc[Shut] = "off" \/ panicked # "none")


\* C39: the expire loop closes a connection only if its stamp is at least
\* Timeout old at the moment of burial: a connection that performs a Read
\* or a Write between the scan of the expire loop and its bury step is not
\* closed.  Every step in which the expire loop unregisters or closes a
\* connection finds it idle for Timeout.
C39_BuriedOnlyIfIdle ==
    [][(pc[Exp] \in {"bury", "close"} /\ pc'[Exp] # pc[Exp])
          => conn[loc[Exp]].stale]_vars


\* C40: a connection whose Query was dropped by a failing forward chain (no
\* reader spawned, no response written) is eventually buried by the expire
\* loop and its FD permit released: from a state where a registered
\* connection has its Query dropped, a state is reached where the connection
\* is no longer registered and its release hook has been called.
C40_DroppedIsBuried ==
    \A c \in ConnIds :
        (c \in conns /\ qry[Qid(c, 1)].st = "dropped" /\ listen)
            ~> (c \notin conns /\ conn[c].rel = 1)

====
